---- MODULE Spec2Model ----
(***************************************************************************)
(* Verification model of the TMEP 1401 / 1402 / 1403 trademark assessment  *)
(* engine: the Nice classification knowledge base and keyword matcher,     *)
(* the Pillar 1 classification assessor, the Pillar 2 identification lens, *)
(* the Pillar 3 multi-class assessor and the full pipeline runner.         *)
(* Texts are TLA+ strings handled character by character, so substring     *)
(* tests, lower-casing, stripping and splitting are computed, not assumed. *)
(***************************************************************************)
EXTENDS Integers, Sequences, FiniteSets, TLC

(***************************************************************************)
(* String primitives (Python str semantics)                                *)
(***************************************************************************)

\* Characters that str.strip() / str.split() treat as whitespace.
WhitespaceChars == {" ", "\t", "\n", "\r"}

\* str.lower() on one character.
LowerChar(c) ==
  CASE c = "A" -> "a" [] c = "B" -> "b" [] c = "C" -> "c" [] c = "D" -> "d"
    [] c = "E" -> "e" [] c = "F" -> "f" [] c = "G" -> "g" [] c = "H" -> "h"
    [] c = "I" -> "i" [] c = "J" -> "j" [] c = "K" -> "k" [] c = "L" -> "l"
    [] c = "M" -> "m" [] c = "N" -> "n" [] c = "O" -> "o" [] c = "P" -> "p"
    [] c = "Q" -> "q" [] c = "R" -> "r" [] c = "S" -> "s" [] c = "T" -> "t"
    [] c = "U" -> "u" [] c = "V" -> "v" [] c = "W" -> "w" [] c = "X" -> "x"
    [] c = "Y" -> "y" [] c = "Z" -> "z" [] OTHER -> c

RECURSIVE Lower(_)
\* str.lower()
Lower(s) == IF s = "" THEN "" ELSE LowerChar(Head(s)) \o Lower(Tail(s))

\* The character of s at position i (1-based), as a one-character string.
CharAt(s, i) == SubSeq(s, i, i)

\* Python's "k in t" for strings: k occurs in t as a contiguous substring.
Contains(t, k) ==
  \E i \in 1..(Len(t) - Len(k) + 1) : SubSeq(t, i, i + Len(k) - 1) = k

\* any(k in t for k in ks) for a sequence ks of strings.
ContainsAny(t, ks) == \E j \in 1..Len(ks) : Contains(t, ks[j])

MinOf(S) == CHOOSE m \in S : \A n \in S : m <= n
MaxOf(S) == CHOOSE m \in S : \A n \in S : n <= m

\* str.strip()
Strip(s) ==
  LET keep == {i \in 1..Len(s) : CharAt(s, i) \notin WhitespaceChars}
  IN IF keep = {} THEN "" ELSE SubSeq(s, MinOf(keep), MaxOf(keep))

RECURSIVE SplitFrom(_, _, _)
\* The pieces of s from position start on, cut at every character in seps
\* (str.split(sep) keeps empty pieces).
SplitFrom(s, seps, start) ==
  LET cut == {i \in start..Len(s) : CharAt(s, i) \in seps}
  IN IF cut = {} THEN <<SubSeq(s, start, Len(s))>>
     ELSE <<SubSeq(s, start, MinOf(cut) - 1)>> \o SplitFrom(s, seps, MinOf(cut) + 1)

SplitOn(s, seps) == SplitFrom(s, seps, 1)

\* str.split() with no argument: whitespace-separated words, none empty.
SplitWords(s) == SelectSeq(SplitOn(s, WhitespaceChars), LAMBDA w : w # "")

\* [t.strip() for t in parts if t.strip()]
RECURSIVE StripNonEmpty(_)
StripNonEmpty(parts) ==
  IF parts = <<>> THEN <<>>
  ELSE LET t == Strip(Head(parts))
       IN (IF t # "" THEN <<t>> ELSE <<>>) \o StripNonEmpty(Tail(parts))

(***************************************************************************)
(* Classification knowledge base (nice_classification_db.py)               *)
(***************************************************************************)

\* NICE_CLASSES as written in the source: class number -> category, title
\* and keyword list (the prose description is not read by any check).
NiceClassesData ==
     1 :> [category |-> "GOODS", title |-> "Chemicals",
       keywords |-> <<"chemical", "chemicals", "adhesive", "fertilizer", "resin", "solvent",
           "catalyst", "reagent", "polymer", "plastic raw material", "glue industrial",
           "photographic chemical", "tanning", "fire extinguishing", "flux">>]
  @@ 2 :> [category |-> "GOODS", title |-> "Paints and Coatings",
       keywords |-> <<"paint", "varnish", "lacquer", "dye", "colorant", "pigment",
           "ink printing", "rust prevention", "coating", "primer", "stain wood", "enamel",
           "glaze">>]
  @@ 3 :> [category |-> "GOODS", title |-> "Cosmetics and Cleaning Products",
       keywords |-> <<"cosmetic", "shampoo", "soap", "perfume", "fragrance", "lotion",
           "cream skincare", "toothpaste", "deodorant", "makeup", "lipstick", "foundation",
           "cleanser", "detergent", "bleach", "polish", "conditioner hair", "sunscreen",
           "moisturizer", "hair care", "body wash", "face wash", "cologne", "essential oil",
           "nail polish">>]
  @@ 4 :> [category |-> "GOODS", title |-> "Lubricants and Fuels",
       keywords |-> <<"lubricant", "oil industrial", "grease", "fuel", "petrol", "gasoline",
           "diesel", "candle", "wax", "kerosene", "biofuel", "engine oil", "motor oil">>]
  @@ 5 :> [category |-> "GOODS", title |-> "Pharmaceuticals and Medical Preparations",
       keywords |-> <<"pharmaceutical", "drug", "medicine", "medication", "supplement",
           "vitamin", "antibiotic", "vaccine", "disinfectant", "bandage", "plaster medical",
           "baby food", "dietary supplement", "herbicide", "pesticide", "fungicide",
           "veterinary", "dental filling", "antiseptic", "laxative", "analgesic">>]
  @@ 6 :> [category |-> "GOODS", title |-> "Metal Goods",
       keywords |-> <<"metal", "steel", "iron", "aluminum", "copper", "wire metal",
           "cable metal", "safe", "lock metal", "nail", "screw", "bolt", "metal container",
           "metal pipe", "metal hardware", "metal building", "chain", "metal fitting">>]
  @@ 7 :> [category |-> "GOODS", title |-> "Machinery",
       keywords |-> <<"machine", "machinery", "engine", "motor industrial", "pump",
           "compressor", "turbine", "robot industrial", "tool power", "generator",
           "vending machine", "conveyor", "agricultural machine", "drill machine", "lathe">>]
  @@ 8 :> [category |-> "GOODS", title |-> "Hand Tools",
       keywords |-> <<"hand tool", "knife", "fork", "spoon", "cutlery", "razor", "scissors",
           "hammer", "screwdriver manual", "saw hand", "plier", "wrench", "chisel", "sword",
           "blade", "shears">>]
  @@ 9 :> [category |-> "GOODS", title |-> "Scientific and Electronic Apparatus",
       keywords |-> <<"software", "computer software", "app", "application", "mobile app",
           "computer", "laptop", "tablet", "smartphone", "hardware", "electronic",
           "downloadable", "digital content", "video game", "game software",
           "operating system", "firmware", "database software", "saas", "platform software",
           "camera", "telephone", "headphone", "speaker electronic", "television", "monitor",
           "server", "semiconductor", "circuit", "battery", "charger", "gps",
           "navigation device", "scanner", "printer hardware", "calculator", "data storage",
           "usb", "hard drive", "cloud software", "artificial intelligence software",
           "machine learning software", "recorded music", "downloadable music", "ebook",
           "downloadable video", "streaming software", "vr headset", "drone", "robot">>]
  @@ 10 :> [category |-> "GOODS", title |-> "Medical Devices",
       keywords |-> <<"medical device", "surgical instrument", "dental instrument",
           "prosthetic", "wheelchair", "orthopedic", "hearing aid", "stethoscope", "syringe",
           "catheter", "implant", "pacemaker", "crutch", "bandage medical device",
           "thermometer medical", "blood pressure monitor", "massage device">>]
  @@ 11 :> [category |-> "GOODS", title |-> "Environmental Control Apparatus",
       keywords |-> <<"light fixture", "lamp", "bulb", "air conditioner", "heater", "furnace",
           "refrigerator", "freezer", "oven", "microwave", "dishwasher", "washer", "dryer",
           "ventilation", "air purifier", "water filter", "toilet", "faucet", "shower",
           "boiler", "heat pump", "hvac", "stove", "cooking appliance">>]
  @@ 12 :> [category |-> "GOODS", title |-> "Vehicles",
       keywords |-> <<"vehicle", "car", "automobile", "truck", "motorcycle", "bicycle", "boat",
           "ship", "aircraft", "airplane", "helicopter", "electric vehicle", "ev", "scooter",
           "train", "bus", "trailer", "wheel vehicle", "tire", "car part">>]
  @@ 13 :> [category |-> "GOODS", title |-> "Firearms",
       keywords |-> <<"firearm", "gun", "pistol", "rifle", "ammunition", "bullet", "explosive",
           "firework", "grenade", "weapon", "shotgun">>]
  @@ 14 :> [category |-> "GOODS", title |-> "Jewelry and Timepieces",
       keywords |-> <<"jewelry", "jewellery", "ring", "necklace", "bracelet", "earring",
           "watch", "clock", "gold", "silver precious", "diamond", "gemstone", "timepiece",
           "brooch", "pendant", "charm jewelry">>]
  @@ 15 :> [category |-> "GOODS", title |-> "Musical Instruments",
       keywords |-> <<"musical instrument", "guitar", "piano", "violin", "drum", "trumpet",
           "flute", "keyboard instrument", "saxophone", "bass", "instrument accessory">>]
  @@ 16 :> [category |-> "GOODS", title |-> "Paper and Printed Matter",
       keywords |-> <<"paper", "printed matter", "book", "magazine", "newspaper", "brochure",
           "stationery", "pen", "pencil", "notebook", "envelope", "cardboard", "photo print",
           "poster printed", "greeting card", "label printed", "manual printed",
           "instruction book", "catalog printed", "pamphlet">>]
  @@ 17 :> [category |-> "GOODS", title |-> "Rubber and Plastic Products",
       keywords |-> <<"rubber", "gasket", "seal rubber", "insulation", "hose", "tube rubber",
           "plastic semi-processed", "foam insulation", "tape insulating">>]
  @@ 18 :> [category |-> "GOODS", title |-> "Leather Goods",
       keywords |-> <<"leather", "bag", "handbag", "purse", "wallet", "luggage", "suitcase",
           "backpack", "umbrella", "tote bag", "briefcase", "belt leather", "harness",
           "saddle", "pet collar", "leash">>]
  @@ 19 :> [category |-> "GOODS", title |-> "Building Materials",
       keywords |-> <<"building material", "cement", "concrete", "brick", "tile",
           "wood building", "glass building", "stone", "gravel", "asphalt", "pipe non-metal",
           "lumber">>]
  @@ 20 :> [category |-> "GOODS", title |-> "Furniture",
       keywords |-> <<"furniture", "chair", "table", "desk", "bed", "sofa", "couch", "mirror",
           "shelf", "cabinet", "wardrobe", "mattress", "pillow", "cushion", "frame picture">>]
  @@ 21 :> [category |-> "GOODS", title |-> "Household Utensils",
       keywords |-> <<"kitchen utensil", "pot", "pan", "cup", "mug", "plate", "bowl",
           "glass tableware", "cutlery set", "brush household", "comb", "sponge", "broom",
           "bucket", "storage container household", "vase", "canteen", "flask">>]
  @@ 22 :> [category |-> "GOODS", title |-> "Cordage and Textile Fibers",
       keywords |-> <<"rope", "string", "net", "tent", "tarpaulin", "sack", "padding stuffing",
           "fiber textile raw", "twine", "cord", "canvas">>]
  @@ 23 :> [category |-> "GOODS", title |-> "Yarns and Threads",
       keywords |-> <<"yarn", "thread", "sewing thread", "knitting yarn", "embroidery thread">>]
  @@ 24 :> [category |-> "GOODS", title |-> "Textiles",
       keywords |-> <<"textile", "fabric", "cloth", "linen", "bedsheet", "towel", "curtain",
           "blanket", "duvet", "tablecloth", "upholstery fabric">>]
  @@ 25 :> [category |-> "GOODS", title |-> "Clothing and Footwear",
       keywords |-> <<"clothing", "clothes", "apparel", "shirt", "t-shirt", "pants", "jeans",
           "dress", "skirt", "jacket", "coat", "suit", "shoes", "boots", "sneakers", "sandals",
           "hat", "cap", "gloves", "socks", "underwear", "sportswear", "swimwear", "uniform",
           "footwear", "headgear", "fashion apparel">>]
  @@ 26 :> [category |-> "GOODS", title |-> "Lace and Embroidery",
       keywords |-> <<"lace", "embroidery", "button", "needle", "pin sewing", "ribbon",
           "artificial flower", "hair accessory", "bow ribbon", "zipper">>]
  @@ 27 :> [category |-> "GOODS", title |-> "Floor Coverings",
       keywords |-> <<"carpet", "rug", "mat", "flooring", "linoleum", "wall hanging">>]
  @@ 28 :> [category |-> "GOODS", title |-> "Games and Sporting Goods",
       keywords |-> <<"toy", "game board", "puzzle", "doll", "sport equipment",
           "gym equipment", "football", "basketball", "tennis racket", "golf club", "ski",
           "snowboard", "christmas decoration", "playing card", "chess",
           "game controller hardware", "fishing equipment", "hunting equipment non-firearm">>]
  @@ 29 :> [category |-> "GOODS", title |-> "Meat and Processed Foods",
       keywords |-> <<"meat", "fish food", "poultry", "cheese", "butter", "milk", "yogurt",
           "egg", "vegetable preserved", "fruit preserved", "jam", "jelly food", "frozen food",
           "dairy", "oil food", "margarine", "broth", "soup canned">>]
  @@ 30 :> [category |-> "GOODS", title |-> "Coffee and Staple Foods",
       keywords |-> <<"coffee", "tea", "cocoa", "chocolate", "sugar", "flour", "bread", "cake",
           "pastry", "cookie", "candy", "ice cream", "pasta", "noodle", "rice", "spice",
           "seasoning", "sauce", "condiment", "vinegar", "honey", "salt">>]
  @@ 31 :> [category |-> "GOODS", title |-> "Agricultural Products",
       keywords |-> <<"fresh fruit", "fresh vegetable", "plant", "flower", "seed",
           "live animal", "pet food", "animal feed", "grain", "unprocessed agricultural",
           "malt", "bulb plant">>]
  @@ 32 :> [category |-> "GOODS", title |-> "Beer and Non-Alcoholic Beverages",
       keywords |-> <<"beer", "non-alcoholic beverage", "soft drink", "soda", "juice",
           "water bottled", "energy drink", "sports drink", "lemonade", "cola", "syrup beverage">>]
  @@ 33 :> [category |-> "GOODS", title |-> "Alcoholic Beverages",
       keywords |-> <<"wine", "spirits", "whiskey", "vodka", "rum", "gin", "liquor", "alcohol",
           "champagne", "brandy", "tequila", "cocktail preparation">>]
  @@ 34 :> [category |-> "GOODS", title |-> "Tobacco Products",
       keywords |-> <<"tobacco", "cigarette", "cigar", "vape", "e-cigarette", "match",
           "lighter", "pipe smoking", "nicotine", "rolling paper">>]
  @@ 35 :> [category |-> "SERVICES", title |-> "Advertising and Business Services",
       keywords |-> <<"advertising", "marketing", "business management", "business consulting",
           "public relations", "recruitment", "staffing", "retail store", "online marketplace",
           "import export", "business administration", "telemarketing", "seo",
           "market research", "business strategy", "ecommerce platform", "franchise">>]
  @@ 36 :> [category |-> "SERVICES", title |-> "Insurance and Financial Services",
       keywords |-> <<"insurance", "financial service", "banking", "investment", "real estate",
           "mortgage", "loan", "credit", "fund management", "stock exchange", "cryptocurrency",
           "fintech", "payment service", "money transfer", "tax service",
           "accounting financial", "brokerage", "leasing financial">>]
  @@ 37 :> [category |-> "SERVICES", title |-> "Building and Repair Services",
       keywords |-> <<"construction", "building service", "repair", "maintenance",
           "installation", "plumbing", "electrical installation", "painting service",
           "cleaning service building", "renovation", "carpentry service", "roofing", "drilling">>]
  @@ 38 :> [category |-> "SERVICES", title |-> "Telecommunications Services",
       keywords |-> <<"telecommunications", "telecom", "internet provider", "broadband",
           "wireless", "telephone service", "satellite communication", "cable tv",
           "streaming platform", "voip", "messaging service", "email service",
           "social media platform", "broadcasting", "radio service", "tv broadcasting">>]
  @@ 39 :> [category |-> "SERVICES", title |-> "Transport and Storage Services",
       keywords |-> <<"transport", "shipping", "delivery", "logistics", "freight", "courier",
           "travel agency", "airline service", "bus service", "taxi", "rideshare",
           "storage service", "warehousing", "moving service", "cargo">>]
  @@ 40 :> [category |-> "SERVICES", title |-> "Treatment of Materials",
       keywords |-> <<"printing service", "manufacturing service", "recycling",
           "water treatment", "food processing", "custom manufacturing", "material treatment",
           "dyeing service", "engraving service", "welding service", "air treatment">>]
  @@ 41 :> [category |-> "SERVICES", title |-> "Education and Entertainment Services",
       keywords |-> <<"education", "training", "entertainment", "sports event",
           "cultural event", "music streaming service", "streaming entertainment",
           "publishing service", "online education", "e-learning", "tutoring", "school",
           "university service", "fitness class", "yoga class", "gaming service online",
           "concert", "theater", "film production", "podcast", "radio entertainment",
           "sports club", "news service", "journalism">>]
  @@ 42 :> [category |-> "SERVICES", title |-> "Scientific and Technology Services",
       keywords |-> <<"technology service", "it service", "software development",
           "web development", "app development", "cloud computing", "saas service", "paas",
           "iaas", "cybersecurity service", "data analytics service", "ai service",
           "ml service", "research and development", "scientific research", "quality control",
           "technical consulting", "it consulting", "web hosting", "database service",
           "api service", "blockchain service", "testing software", "ux design",
           "computer programming", "network service">>]
  @@ 43 :> [category |-> "SERVICES", title |-> "Food and Beverage Services",
       keywords |-> <<"restaurant", "cafe", "bar service", "catering", "food delivery service",
           "hotel", "accommodation", "bed and breakfast", "canteen", "food service",
           "coffee shop", "bakery service", "fast food">>]
  @@ 44 :> [category |-> "SERVICES", title |-> "Medical and Veterinary Services",
       keywords |-> <<"medical service", "healthcare", "hospital", "clinic", "doctor service",
           "dental service", "veterinary service", "beauty salon", "spa service", "hair salon",
           "nursing", "pharmacy service", "therapy", "mental health service",
           "agriculture service", "landscaping", "gardening service", "telemedicine">>]
  @@ 45 :> [category |-> "SERVICES", title |-> "Legal and Security Services",
       keywords |-> <<"legal service", "law firm", "attorney service", "security service",
           "security guard", "investigation service", "social service", "dating service",
           "matchmaking", "online social network", "personal assistant service",
           "funeral service", "licensing service", "intellectual property service",
           "arbitration">>]

\* Insertion order of the NICE_CLASSES dict: the order .items() iterates in.
NiceClassKeys == [i \in 1..45 |-> i]

VALID_CLASS_NUMBERS == 1..45

VARIABLES
  NICE_CLASSES,     \* the module-level knowledge table (a mutable dict)
  pc,               \* position of the running entry point
  calls,            \* keyword matcher calls made so far: <<term, result>>
  application_dict, \* the structured input dict handed to the entry point
  findings,         \* TMEP1401Assessor.findings, the shared ordered list
  p1_result,        \* what assess_trademark_application returned besides the findings
  lens,             \* the TMEP1402Lens in use: its text and Pillar 1 context
  p2_result,        \* what analyze_identification_under_tmep_1402 returned last
  evaluations,      \* Pillar 2 analyses made so far, oldest first
  class_summaries,  \* Pillar3Assessor.classes: the ClassSummary list
  ctx,              \* Pillar3Assessor.ctx: the MultiClassApplicationContext
  p3_findings,      \* Pillar3Assessor.findings, one list per assessor
  p3_locals,        \* what the 1403 checks returned to run_full_assessment
  p3_result,        \* the Pillar3AssessmentResult returned last
  p2_results,       \* run_full_pipeline: Pillar 2 result by class number
  combined_summary, \* run_full_pipeline: the combined summary dict
  pipeline_call,    \* the pipeline entry point called, the modules that can be
                    \* imported, and how the call ended
  handed_out        \* what a caller of run_full_assessment holds: the contents the
                    \* finding lists had when they were first returned, and how
                    \* often the caller has invoked the assessor again

vars == <<NICE_CLASSES, pc, calls, application_dict, findings, p1_result,
          lens, p2_result, evaluations,
          class_summaries, ctx, p3_findings, p3_locals, p3_result,
          p2_results, combined_summary, pipeline_call, handed_out>>

\* The state owned by each part of the program.
matcherVars == <<calls>>
pillar1Vars == <<application_dict, findings, p1_result>>
pillar2Vars == <<lens, p2_result, evaluations>>
pillar3Vars == <<class_summaries, ctx, p3_findings, p3_locals, p3_result>>
pipelineVars == <<p2_results, combined_summary, pipeline_call>>
callerVars == <<handed_out>>

\* Values of objects that do not exist (yet).
NoLens == [none |-> TRUE]
NoResult == [none |-> TRUE]
NoCtx == [none |-> TRUE]
NoLocals == [none |-> TRUE]
NoSummary == [none |-> TRUE]
NoCall == [none |-> TRUE]

\* No Pillar3Assessor has been constructed and no pipeline has run.
NoPillar3 ==
  /\ class_summaries = <<>>
  /\ ctx = NoCtx
  /\ p3_findings = <<>>
  /\ p3_locals = NoLocals
  /\ p3_result = NoResult

NoPipeline ==
  /\ p2_results = <<>>
  /\ combined_summary = NoSummary
  /\ pipeline_call = NoCall

\* No assessor has returned a finding list to its caller yet.
NothingHandedOut ==
  [p1_given |-> FALSE, p1 |-> <<>>, p3_given |-> FALSE, p3 |-> <<>>, again |-> 0]

\* The caller's view once an assessor has returned its list: the contents at
\* the first return are what the caller goes by.
HandOut1401(fs) ==
  IF handed_out.p1_given THEN handed_out ELSE [handed_out EXCEPT !.p1_given = TRUE, !.p1 = fs]
HandOut1403(fs) ==
  IF handed_out.p3_given THEN handed_out ELSE [handed_out EXCEPT !.p3_given = TRUE, !.p3 = fs]

\* Python's None where a string is expected, and None where a class record is.
None == "None"
NoClassInfo == [none |-> TRUE]

\* get_class_info: the record of a class, or None.
get_class_info(class_number) ==
  IF class_number \in DOMAIN NICE_CLASSES THEN NICE_CLASSES[class_number] ELSE NoClassInfo

\* As KeywordScore, but the partial tier only tests the query inside the keyword.
KeywordScoreOneWay(keyword_lower, words, kw) ==
  IF keyword_lower = kw THEN 10
  ELSE IF Contains(kw, keyword_lower) THEN 5
  ELSE IF \E i \in 1..Len(words) : Contains(kw, words[i]) THEN 2
  ELSE 0

\* Contribution of one keyword kw of a class to the score of the query;
\* words is keyword_lower.split().
KeywordScore(keyword_lower, words, kw) ==
  IF keyword_lower = kw THEN 10
  ELSE IF Contains(kw, keyword_lower) \/ Contains(keyword_lower, kw) THEN 5
  ELSE IF \E i \in 1..Len(words) : Contains(kw, words[i]) THEN 2
  ELSE 0

RECURSIVE ClassScoreFrom(_, _, _, _)
\* The inner loop from keyword number k on: the score accumulated over the
\* keyword list of one class.
ClassScoreFrom(keyword_lower, words, kws, k) ==
  IF k > Len(kws) THEN 0
  ELSE KeywordScore(keyword_lower, words, kws[k])
       + ClassScoreFrom(keyword_lower, words, kws, k + 1)

ClassScore(keyword_lower, kws) ==
  LET words == SplitWords(keyword_lower)
  IN ClassScoreFrom(keyword_lower, words, kws, 1)

\* The outer loop: (class, title, score) of every class with score > 0,
\* in dict iteration order.
ScoredClasses(keyword_lower, keys) ==
  LET words == SplitWords(keyword_lower)
      scored == [i \in 1..Len(keys) |->
                   <<keys[i], NICE_CLASSES[keys[i]].title,
                     ClassScoreFrom(keyword_lower, words, NICE_CLASSES[keys[i]].keywords, 1)>>]
  IN SelectSeq(scored, LAMBDA e : e[3] > 0)

\* As SortByScoreDesc, but elements of equal score come out in reverse order
\* (what sorting ascending and then reversing the list would give).
SortByScoreReversingTies(l) ==
  LET place == [i \in 1..Len(l) |->
                  Cardinality({j \in 1..Len(l) : l[j][3] > l[i][3]})
                  + Cardinality({j \in 1..Len(l) : j > i /\ l[j][3] = l[i][3]}) + 1]
  IN [p \in 1..Len(l) |-> l[CHOOSE i \in 1..Len(l) : place[i] = p]]

\* list.sort(key=score, reverse=True): Python's sort is stable also with
\* reverse=True, so an element lands after every element of greater score
\* and after the earlier elements of equal score.
SortByScoreDesc(l) ==
  LET place == [i \in 1..Len(l) |->
                  Cardinality({j \in 1..Len(l) : l[j][3] > l[i][3]})
                  + Cardinality({j \in 1..Len(l) : j < i /\ l[j][3] = l[i][3]}) + 1]
  IN [p \in 1..Len(l) |-> l[CHOOSE i \in 1..Len(l) : place[i] = p]]

TopN == 5

suggest_class_for_keyword(keyword) ==
  LET keyword_lower == Strip(Lower(keyword))
      suggestions == SortByScoreDesc(ScoredClasses(keyword_lower, NiceClassKeys))
  IN SubSeq(suggestions, 1, IF Len(suggestions) < TopN THEN Len(suggestions) ELSE TopN)


(***************************************************************************)
(* Other static tables of nice_classification_db.py                        *)
(***************************************************************************)

\* COMMON_MISCLASSIFICATIONS in dict order: (keyword, wrong class) -> (correct
\* class, reason).  Texts are kept in ASCII: an arrow is written ">", a dash
\* "-", a section sign "#" and a bullet "*", one character for one.
COMMON_MISCLASSIFICATIONS ==
  << [kw |-> "software", wrong_class |-> 25, correct_class |-> 9,
      reason |-> "Software is a digital product > Class 9, not clothing (Class 25)"],
     [kw |-> "software", wrong_class |-> 35, correct_class |-> 42,
      reason |-> "Software development is a tech service > Class 42, not business services (Class 35)"],
     [kw |-> "app", wrong_class |-> 35, correct_class |-> 9,
      reason |-> "Mobile app (downloadable) > Class 9; if SaaS > Class 42"],
     [kw |-> "website", wrong_class |-> 35, correct_class |-> 42,
      reason |-> "Website development is IT service > Class 42"],
     [kw |-> "downloadable music", wrong_class |-> 41, correct_class |-> 9,
      reason |-> "Downloadable music is a digital product > Class 9"],
     [kw |-> "music streaming service", wrong_class |-> 9, correct_class |-> 41,
      reason |-> "Streaming service is entertainment > Class 41"],
     [kw |-> "printed manual", wrong_class |-> 9, correct_class |-> 16,
      reason |-> "Printed manuals are printed matter > Class 16"],
     [kw |-> "restaurant", wrong_class |-> 43, correct_class |-> 43,
      reason |-> "OK"],
     [kw |-> "restaurant", wrong_class |-> 35, correct_class |-> 43,
      reason |-> "Restaurant services > Class 43, not business services"],
     [kw |-> "coffee beverage", wrong_class |-> 30, correct_class |-> 30,
      reason |-> "OK - coffee as a product"],
     [kw |-> "coffee shop", wrong_class |-> 30, correct_class |-> 43,
      reason |-> "Coffee shop (service) > Class 43"],
     [kw |-> "medical device", wrong_class |-> 5, correct_class |-> 10,
      reason |-> "Medical devices > Class 10, not pharmaceuticals (Class 5)"],
     [kw |-> "pharmaceutical", wrong_class |-> 10, correct_class |-> 5,
      reason |-> "Pharmaceuticals > Class 5, not medical devices (Class 10)"],
     [kw |-> "restaurant service", wrong_class |-> 42, correct_class |-> 43,
      reason |-> "Post 8th Ed.: restaurant services > Class 43 (split from old Class 42)"],
     [kw |-> "medical service", wrong_class |-> 42, correct_class |-> 44,
      reason |-> "Post 8th Ed.: medical services > Class 44 (split from old Class 42)"],
     [kw |-> "legal service", wrong_class |-> 42, correct_class |-> 45,
      reason |-> "Post 8th Ed.: legal services > Class 45 (split from old Class 42)"] >>

\* USPTO_FEES: fee per class by filing type, and USPTO_FEES.get(type, default).
USPTO_FEES == [TEAS_PLUS |-> 250, TEAS_STANDARD |-> 350, PAPER |-> 750]

FeePerClass(filing_type) ==
  IF filing_type \in DOMAIN USPTO_FEES THEN USPTO_FEES[filing_type]
  ELSE USPTO_FEES["TEAS_STANDARD"]

(***************************************************************************)
(* Input dict and its parse into the dataclass model (main.py)             *)
(***************************************************************************)

\* No input dict: the entry point is not in use.
NoApplication == [classes |-> <<>>]

\* dict.get(key, default); a dict is a record that has a field per key present.
DictGet(d, key, default) == IF key \in DOMAIN d THEN d[key] ELSE default

RECURSIVE Flatten(_)
\* Concatenation of a sequence of sequences.
Flatten(ss) == IF ss = <<>> THEN <<>> ELSE Head(ss) \o Flatten(Tail(ss))

\* The set of elements of a sequence.
Range(q) == {q[i] : i \in 1..Len(q)}

\* parse_application: ClassEntry per class dict, defaults filled in.
ParseClassEntry(cls) ==
  [class_number |-> DictGet(cls, "class_number", 0),
   identification |-> DictGet(cls, "identification", ""),
   specimen_type |-> DictGet(cls, "specimen_type", ""),
   specimen_description |-> DictGet(cls, "specimen_description", ""),
   fee_paid |-> DictGet(cls, "fee_paid", TRUE),
   filing_basis |-> DictGet(cls, "filing_basis", "1(a)"),
   date_of_first_use |-> DictGet(cls, "date_of_first_use", None),
   date_of_first_use_commerce |-> DictGet(cls, "date_of_first_use_commerce", None)]

parse_application(app_dict) ==
  LET class_entries == [i \in 1..Len(DictGet(app_dict, "classes", <<>>)) |->
                          ParseClassEntry(app_dict.classes[i])]
      unique_classes == {class_entries[i].class_number : i \in 1..Len(class_entries)}
  IN [filing_date |-> DictGet(app_dict, "filing_date", ""),
      nice_edition_claimed |-> DictGet(app_dict, "nice_edition_claimed", "12th"),
      filing_type |-> DictGet(app_dict, "filing_type", "TEAS_PLUS"),
      classes |-> class_entries,
      fees_paid_count |-> DictGet(app_dict, "fees_paid_count", Cardinality(unique_classes)),
      is_multi_class |-> Cardinality(unique_classes) > 1]

(***************************************************************************)
(* Pillar 1: TMEP1401Assessor (tmep_1401_assessor.py)                      *)
(***************************************************************************)

\* An AssessmentFinding.  item is the fixed label of the item text and
\* detail the values the item, finding and recommendation texts interpolate.
Finding(section, severity, class_number, item, detail) ==
  [tmep_section |-> section, severity |-> severity, class_number |-> class_number,
   item |-> item, detail |-> detail]

NoDetail == <<>>

\* Section 1401.01: every filing basis must be a recognised one.
ValidBases == <<"1(a)", "1(b)", "44(d)", "44(e)", "66(a)">>

check_1401_01(app, fs) ==
  LET section == "1401.01"
      n == Len(app.classes)
      perEntry == [i \in 1..n |->
        IF app.classes[i].filing_basis \notin Range(ValidBases)
        THEN <<Finding(section, "ERROR", app.classes[i].class_number, "Filing basis",
                       [filing_basis |-> app.classes[i].filing_basis])>>
        ELSE <<>>]
      found_invalid_basis == \E i \in 1..n : perEntry[i] # <<>>
  IN fs \o Flatten(perEntry)
        \o (IF ~found_invalid_basis
            THEN <<Finding(section, "OK", 0, "Filing Basis", NoDetail)>> ELSE <<>>)

\* As check_1401_02, but the validity test only rejects numbers above 45.
check_1401_02_NoLowerBound(app, fs) ==
  LET section == "1401.02"
      n == Len(app.classes)
      perEntry == [i \in 1..n |->
        IF app.classes[i].class_number > 45
        THEN <<Finding(section, "ERROR", app.classes[i].class_number, "Class",
                       [class_number |-> app.classes[i].class_number])>>
        ELSE <<>>]
      invalid_classes_found == Flatten(perEntry)
  IN fs \o invalid_classes_found
        \o (IF invalid_classes_found = <<>>
            THEN <<Finding(section, "OK", 0, "Nice Classification System Compliance",
                           [classes_used |-> [i \in 1..n |-> app.classes[i].class_number]])>>
            ELSE <<>>)

\* Section 1401.02: every class number must be a Nice class number.
check_1401_02(app, fs) ==
  LET section == "1401.02"
      n == Len(app.classes)
      perEntry == [i \in 1..n |->
        IF app.classes[i].class_number \notin VALID_CLASS_NUMBERS
        THEN <<Finding(section, "ERROR", app.classes[i].class_number, "Class",
                       [class_number |-> app.classes[i].class_number])>>
        ELSE <<>>]
      invalid_classes_found == Flatten(perEntry)
  IN fs \o invalid_classes_found
        \o (IF invalid_classes_found = <<>>
            THEN <<Finding(section, "OK", 0, "Nice Classification System Compliance",
                           [classes_used |-> [i \in 1..n |-> app.classes[i].class_number]])>>
            ELSE <<>>)

\* Section 1401.03, step A: one ERROR per table entry whose keyword occurs in
\* the identification and whose wrong class is the claimed one.
\* The table walk of step A leaving the loop at its first hit.
MisclassificationFindings_FirstHitOnly(claimed_class, id_text) ==
  LET hits == Flatten([k \in 1..Len(COMMON_MISCLASSIFICATIONS) |->
    LET m == COMMON_MISCLASSIFICATIONS[k]
    IN IF /\ Contains(id_text, m.kw)
          /\ m.wrong_class = claimed_class
          /\ m.correct_class # claimed_class
       THEN <<Finding("1401.03", "ERROR", claimed_class, "misclassification",
                      [kw |-> m.kw, wrong_class |-> m.wrong_class,
                       correct_class |-> m.correct_class,
                       title |-> NICE_CLASSES[claimed_class].title,
                       reason |-> m.reason])>>
       ELSE <<>>])
  IN IF hits = <<>> THEN <<>> ELSE <<Head(hits)>>

MisclassificationFindings(claimed_class, id_text) ==
  Flatten([k \in 1..Len(COMMON_MISCLASSIFICATIONS) |->
    LET m == COMMON_MISCLASSIFICATIONS[k]
    IN IF /\ Contains(id_text, m.kw)
          /\ m.wrong_class = claimed_class
          /\ m.correct_class # claimed_class
       THEN <<Finding("1401.03", "ERROR", claimed_class, "misclassification",
                      [kw |-> m.kw, wrong_class |-> m.wrong_class,
                       correct_class |-> m.correct_class,
                       title |-> NICE_CLASSES[claimed_class].title,
                       reason |-> m.reason])>>
       ELSE <<>>])

\* The comma/semicolon separated terms of an identification.
IdTerms(id_text) == StripNonEmpty(SplitOn(id_text, {";", ","}))

\* Step B: a WARNING per term whose best suggestion is another class with
\* score at least threshold 5.
SuggestionThreshold == 5

SuggestionFindings(claimed_class, id_text) ==
  LET id_terms == IdTerms(id_text)
  IN Flatten([t \in 1..Len(id_terms) |->
       LET suggestions == suggest_class_for_keyword(id_terms[t])
       IN IF /\ suggestions # <<>>
             /\ suggestions[1][1] # claimed_class
             /\ suggestions[1][3] >= SuggestionThreshold
          THEN <<Finding("1401.03", "WARNING", claimed_class, "Term",
                         [term |-> id_terms[t], suggested_class |-> suggestions[1][1]])>>
          ELSE <<>>])

service_indicators ==
  <<"service", "services", "providing", "rendering", "consulting",
    "management of", "repair of", "installation of", "development of">>

goods_indicators ==
  <<"downloadable", "printed", "physical", "apparatus", "device", "equipment",
    "machine", "clothing", "food", "beverage", "chemical">>

\* Step C: goods class described in service language, or the reverse.
CategoryFindings(claimed_class, class_info, id_text) ==
  LET is_service_language == ContainsAny(id_text, service_indicators)
      is_goods_language == ContainsAny(id_text, goods_indicators)
  IN IF class_info.category = "GOODS" /\ is_service_language /\ ~is_goods_language
     THEN <<Finding("1401.03", "WARNING", claimed_class, "Category mismatch",
                    [category |-> "GOODS"])>>
     ELSE IF class_info.category = "SERVICES" /\ is_goods_language /\ ~is_service_language
     THEN <<Finding("1401.03", "WARNING", claimed_class, "Category mismatch",
                    [category |-> "SERVICES"])>>
     ELSE <<>>

\* One iteration of the 1401.03 loop on the normalised text id_text: the
\* shared list after the entry.
Designation03With(fs, cls_entry, id_text) ==
  LET claimed_class == cls_entry.class_number
      class_info == get_class_info(claimed_class)
  IN IF class_info = NoClassInfo THEN fs
     ELSE
       LET stepA == MisclassificationFindings(claimed_class, id_text)
           misclassification_found == stepA # <<>>
           afterC == fs \o stepA \o SuggestionFindings(claimed_class, id_text)
                        \o CategoryFindings(claimed_class, class_info, id_text)
           has_warning == \E k \in 1..Len(afterC) :
                            /\ afterC[k].tmep_section = "1401.03"
                            /\ afterC[k].class_number = claimed_class
       IN IF ~misclassification_found /\ ~has_warning
          THEN Append(afterC, Finding("1401.03", "OK", claimed_class, "Class", NoDetail))
          ELSE afterC

\* As Designation03Entry, but the identification is matched as typed,
\* without lower-casing.
Designation03EntryCaseSensitive(fs, cls_entry) ==
  Designation03With(fs, cls_entry, Strip(cls_entry.identification))

Designation03Entry(fs, cls_entry) ==
  Designation03With(fs, cls_entry, Strip(Lower(cls_entry.identification)))

RECURSIVE Designation03From(_, _, _)
Designation03From(fs, classes, i) ==
  IF i > Len(classes) THEN fs
  ELSE Designation03From(Designation03Entry(fs, classes[i]), classes, i + 1)

\* Section 1401.03: designation of class.
check_1401_03(app, fs) == Designation03From(fs, app.classes, 1)

\* Items of the fee-count finding of section 1401.04 (one of them per run).
FeeCountItems == {"Fee Count Not Specified", "Fee Shortage", "Fee Excess", "Fee Verification"}

\* The section 1401.04 findings for a list of claimed class numbers counted
\* as num_distinct classes.
Fee04Findings(app, claimed_classes, distinct_classes) ==
  LET section == "1401.04"
      num_distinct == Cardinality(distinct_classes)
      fees_paid == app.fees_paid_count
      fee_per_class == FeePerClass(app.filing_type)
      duplicates == {c \in distinct_classes :
                       Cardinality({i \in 1..Len(claimed_classes) : claimed_classes[i] = c}) > 1}
      dupFinding ==
        IF Len(claimed_classes) # Cardinality(distinct_classes)
        THEN <<Finding(section, "WARNING", 0, "Duplicate class entries",
                       [duplicates |-> duplicates])>>
        ELSE <<>>
      countFinding ==
        IF fees_paid = 0
        THEN Finding(section, "INFO", 0, "Fee Count Not Specified",
                     [num_distinct |-> num_distinct,
                      expected_fee_total |-> num_distinct * fee_per_class])
        ELSE IF fees_paid < num_distinct
        THEN Finding(section, "ERROR", 0, "Fee Shortage",
                     [fees_paid |-> fees_paid, num_distinct |-> num_distinct,
                      shortage |-> num_distinct - fees_paid,
                      amount |-> (num_distinct - fees_paid) * fee_per_class,
                      distinct_classes |-> distinct_classes,
                      filing_type |-> app.filing_type])
        ELSE IF fees_paid > num_distinct
        THEN Finding(section, "WARNING", 0, "Fee Excess",
                     [fees_paid |-> fees_paid, num_distinct |-> num_distinct,
                      excess |-> fees_paid - num_distinct,
                      amount |-> (fees_paid - num_distinct) * fee_per_class])
        ELSE Finding(section, "OK", 0, "Fee Verification",
                     [fees_paid |-> fees_paid, num_distinct |-> num_distinct,
                      total |-> fees_paid * fee_per_class])
      perEntry == [i \in 1..Len(app.classes) |->
        IF ~app.classes[i].fee_paid
        THEN <<Finding(section, "ERROR", app.classes[i].class_number, "No fee",
                       [fee |-> fee_per_class])>>
        ELSE <<>>]
  IN dupFinding \o <<countFinding>> \o Flatten(perEntry)

\* As check_1401_04, but classes are counted per entry, duplicates included.
check_1401_04_CountsEntries(app, fs) ==
  LET claimed_classes == [i \in 1..Len(app.classes) |-> app.classes[i].class_number]
  IN fs \o Fee04Findings(app, claimed_classes, 1..Len(claimed_classes))

\* Section 1401.04: one fee per distinct class.
check_1401_04(app, fs) ==
  LET claimed_classes == [i \in 1..Len(app.classes) |-> app.classes[i].class_number]
  IN fs \o Fee04Findings(app, claimed_classes, Range(claimed_classes))

\* The first n elements of a sequence: q[:n].
Take(q, n) == SubSeq(q, 1, IF Len(q) < n THEN Len(q) ELSE n)

\* sum(1 for kw in kws if kw in text)
CountContained(text, kws) == Cardinality({k \in 1..Len(kws) : Contains(text, kws[k])})

\* The terms of ambiguous_pairs, in list order.
ambiguous_pairs == <<"music", "video", "software", "book", "food", "education">>

Criteria05Entry(cls_entry) ==
  LET id_text == Lower(cls_entry.identification)
      class_info == get_class_info(cls_entry.class_number)
      n == cls_entry.class_number
  IN IF class_info = NoClassInfo THEN <<>>
     ELSE
       Flatten([k \in 1..Len(ambiguous_pairs) |->
                  IF Contains(id_text, ambiguous_pairs[k])
                  THEN <<Finding("1401.05", "INFO", n, "Ambiguous term",
                                 [term |-> ambiguous_pairs[k]])>>
                  ELSE <<>>])
       \o <<Finding("1401.05", "INFO", n, "Classification Logic",
                    [category |-> IF class_info.category = "GOODS"
                                  THEN "GOODS" ELSE "SERVICES"])>>

\* Section 1401.05: criteria for classification (advisory only).
check_1401_05(app, fs) ==
  fs \o Flatten([i \in 1..Len(app.classes) |-> Criteria05Entry(app.classes[i])])

SPECIMEN_TYPES ==
  [goods_valid |-> <<"product label", "product packaging", "product tag",
                     "product photo", "hang tag", "point of sale display",
                     "screenshot showing product for sale">>,
   goods_invalid |-> <<"invoice", "purchase order", "business card", "letterhead",
                       "press release", "rendering", "mockup", "logo alone">>,
   services_valid |-> <<"website screenshot", "advertisement", "brochure",
                        "promotional material", "screenshot of service",
                        "service description page">>,
   services_invalid |-> <<"product label", "invoice", "business card alone",
                          "rendering">>]

StrongKeywords == 10
MismatchThreshold == 2

\* The first other class, in table order, whose strong keywords match the
\* specimen description better than the claimed class's: 0 when there is none.
MismatchingClass(class_number, specimen_desc_lower) ==
  LET own_matches ==
        CountContained(specimen_desc_lower,
                       Take(NiceClassesData[class_number].keywords, StrongKeywords))
      Mismatch(other_cn) ==
        LET other_matches ==
              CountContained(specimen_desc_lower,
                             Take(NiceClassesData[other_cn].keywords, StrongKeywords))
        IN other_matches > own_matches /\ other_matches >= MismatchThreshold
      hits == {cn \in (1..45) \ {class_number} : Mismatch(cn)}
  IN IF hits = {} THEN 0 ELSE MinOf(hits)

\* The test that decides whether a specimen is required: everything but 1(b).
\* No basis exempts an entry from the specimen requirement.
SpecimenExempt06_NeverExempt(cls_entry) == FALSE

\* The basis under which no specimen is due yet.
SpecimenExempt06(cls_entry) == cls_entry.filing_basis = "1(b)"

Specimen06Entry(cls_entry) ==
  LET n == cls_entry.class_number
      class_info == get_class_info(n)
      specimen_type_lower == Lower(cls_entry.specimen_type)
      specimen_desc_lower == Lower(cls_entry.specimen_description)
  IN IF SpecimenExempt06(cls_entry)
     THEN <<Finding("1401.06", "INFO", n, "Intent to Use (1(b))", NoDetail)>>
     ELSE IF cls_entry.specimen_type = "" /\ cls_entry.specimen_description = ""
     THEN <<Finding("1401.06", "ERROR", n, "Specimen Missing", NoDetail)>>
     ELSE IF class_info = NoClassInfo THEN <<>>
     ELSE
       LET invalid == IF class_info.category = "GOODS" THEN SPECIMEN_TYPES.goods_invalid
                      ELSE SPECIMEN_TYPES.services_invalid
           valid == IF class_info.category = "GOODS" THEN SPECIMEN_TYPES.goods_valid
                    ELSE SPECIMEN_TYPES.services_valid
           is_invalid == ContainsAny(specimen_type_lower, invalid)
           is_valid == ContainsAny(specimen_type_lower, valid)
           other_cn == MismatchingClass(n, specimen_desc_lower)
       IN (IF is_invalid /\ ~is_valid
           THEN <<Finding("1401.06", "ERROR", n, "specimen",
                          [category |-> class_info.category,
                           specimen_type |-> cls_entry.specimen_type])>>
           ELSE <<>>)
          \o (IF other_cn # 0
              THEN <<Finding("1401.06", "WARNING", n, "Specimen mismatch",
                             [other_cn |-> other_cn])>>
              ELSE <<Finding("1401.06", "OK", n, "specimen alignment", NoDetail)>>)

\* Section 1401.06: specimen as related to classification.
check_1401_06(app, fs) ==
  fs \o Flatten([i \in 1..Len(app.classes) |-> Specimen06Entry(app.classes[i])])

\* reclassification_triggers: what the identification must mention, what the
\* specimen description must reveal, and the class the trigger points to.
reclassification_triggers ==
  <<[claimed_description_keywords |-> <<"printed manual", "printed guide",
                                        "printed instruction">>,
     claimed_class |-> 16,
     specimen_reveals_keywords |-> <<"download", "online", "digital", "software",
                                     "app", "website">>,
     true_class |-> 9],
    [claimed_description_keywords |-> <<"physical software", "software disk", "cd-rom">>,
     claimed_class |-> 9,
     specimen_reveals_keywords |-> <<"service", "cloud", "saas", "subscription",
                                     "access to">>,
     true_class |-> 42],
    [claimed_description_keywords |-> <<"clothing", "apparel", "t-shirt">>,
     claimed_class |-> 25,
     specimen_reveals_keywords |-> <<"restaurant", "menu", "food service", "dining",
                                     "catering">>,
     true_class |-> 43],
    [claimed_description_keywords |-> <<"book", "publication">>,
     claimed_class |-> 16,
     specimen_reveals_keywords |-> <<"download", "ebook", "digital", "epub", "kindle">>,
     true_class |-> 9],
    [claimed_description_keywords |-> <<"software", "application", "app">>,
     claimed_class |-> 9,
     specimen_reveals_keywords |-> <<"web-based", "saas", "subscription service",
                                     "cloud service", "hosted service", "no download">>,
     true_class |-> 42]>>

Characteristics07Entry(cls_entry) ==
  LET spec_desc_lower == Lower(cls_entry.specimen_description)
      id_text_lower == Lower(cls_entry.identification)
      fired == {k \in 1..Len(reclassification_triggers) :
                  /\ ContainsAny(id_text_lower,
                                 reclassification_triggers[k].claimed_description_keywords)
                  /\ ContainsAny(spec_desc_lower,
                                 reclassification_triggers[k].specimen_reveals_keywords)}
  IN IF cls_entry.specimen_description = "" THEN <<>>
     ELSE IF fired # {}
     THEN <<Finding("1401.07", "ERROR", cls_entry.class_number,
                    "Specimen reveals reclassification need",
                    [true_class |-> reclassification_triggers[MinOf(fired)].true_class])>>
     ELSE <<Finding("1401.07", "OK", cls_entry.class_number,
                    "Specimen characteristic review", NoDetail)>>

\* Section 1401.07: specimen discloses special characteristics.
check_1401_07(app, fs) ==
  fs \o Flatten([i \in 1..Len(app.classes) |-> Characteristics07Entry(app.classes[i])])

MisalignedThreshold == 7
BundlingThreshold == 5
BundlingClasses == 2

\* id_text.replace(";", ",").split(","), stripped, empty items dropped.
IdItems(id_text) == StripNonEmpty(SplitOn(id_text, {";", ","}))

\* The per-class body once the top suggestion of every item is known:
\* tops[k] is suggest_class_for_keyword(id_items[k])[:1].
Alignment08With(fs, claimed_class, id_items, tops) ==
  LET Misaligned(k) == /\ tops[k] # <<>>
                       /\ tops[k][1][1] # claimed_class
                       /\ tops[k][1][3] >= MisalignedThreshold
      misaligned == Flatten([k \in 1..Len(id_items) |->
                      IF Misaligned(k)
                      THEN <<Finding("1401.08", "WARNING", claimed_class, "item in Class",
                                     [item |-> id_items[k],
                                      suggested_class |-> tops[k][1][1]])>>
                      ELSE <<>>])
      other_classes_suggested ==
        {tops[k][1][1] : k \in {j \in 1..Len(id_items) :
                                  /\ tops[j] # <<>>
                                  /\ tops[j][1][1] # claimed_class
                                  /\ tops[j][1][3] >= BundlingThreshold}}
      afterItems == fs \o misaligned
      already_flagged == \E k \in 1..Len(afterItems) :
                           /\ afterItems[k].tmep_section = "1401.08"
                           /\ afterItems[k].class_number = claimed_class
                           /\ afterItems[k].severity \in {"ERROR", "WARNING"}
  IN IF Cardinality(other_classes_suggested) >= BundlingClasses
     THEN Append(afterItems,
                 Finding("1401.08", "WARNING", claimed_class, "Possible multi-class bundling",
                         [classes |-> other_classes_suggested]))
     ELSE IF ~already_flagged
     THEN Append(afterItems,
                 Finding("1401.08", "OK", claimed_class, "Class/Identification Alignment",
                         NoDetail))
     ELSE afterItems

Alignment08Entry(fs, cls_entry) ==
  LET id_items == IdItems(cls_entry.identification)
  IN IF get_class_info(cls_entry.class_number) = NoClassInfo THEN fs
     ELSE Alignment08With(fs, cls_entry.class_number, id_items,
                          [k \in 1..Len(id_items) |->
                             Take(suggest_class_for_keyword(id_items[k]), 1)])

RECURSIVE Alignment08From(_, _, _)
Alignment08From(fs, classes, i) ==
  IF i > Len(classes) THEN fs
  ELSE Alignment08From(Alignment08Entry(fs, classes[i]), classes, i + 1)

\* Section 1401.08: classification and the identification.
check_1401_08(app, fs) == Alignment08From(fs, app.classes, 1)

(***************************************************************************)
(* Dates: datetime.strptime(s, "%Y-%m-%d").date()                          *)
(***************************************************************************)

DigitChars == "0123456789"

IsDigits(s) == s # "" /\ \A i \in 1..Len(s) : Contains(DigitChars, CharAt(s, i))

DigitVal(c) == CHOOSE v \in 0..9 : CharAt(DigitChars, v + 1) = c

\* int(s) of a string of at most four digits.
IntOf(s) ==
  LET n == Len(s)
      Pow10(k) == CASE k = 0 -> 1 [] k = 1 -> 10 [] k = 2 -> 100 [] OTHER -> 1000
      Place(i) == DigitVal(CharAt(s, i)) * Pow10(n - i)
      Sum[i \in 0..n] == IF i = 0 THEN 0 ELSE Sum[i - 1] + Place(i)
  IN Sum[n]

IsLeap(y) == (y % 4 = 0 /\ y % 100 # 0) \/ y % 400 = 0

DaysInMonth(y, m) ==
  CASE m = 2 -> IF IsLeap(y) THEN 29 ELSE 28
    [] m \in {4, 6, 9, 11} -> 30
    [] OTHER -> 31

\* A date that did not parse: strptime raises ValueError.
NoDate == [ok |-> FALSE, ordinal |-> 0]

\* %Y is four digits, %m and %d one or two; the day must exist in the month
\* and the year in 1..9999.  The ordinal orders dates as date comparison does.
ParseDate(s) ==
  LET parts == SplitOn(s, {"-"})
  IN IF Len(parts) # 3 THEN NoDate
     ELSE IF ~(IsDigits(parts[1]) /\ IsDigits(parts[2]) /\ IsDigits(parts[3]))
     THEN NoDate
     ELSE IF ~(Len(parts[1]) = 4 /\ Len(parts[2]) <= 2 /\ Len(parts[3]) <= 2)
     THEN NoDate
     ELSE LET y == IntOf(parts[1])
              m == IntOf(parts[2])
              d == IntOf(parts[3])
          IN IF y >= 1 /\ m \in 1..12 /\ d >= 1 /\ d <= DaysInMonth(y, m)
             THEN [ok |-> TRUE, ordinal |-> y * 10000 + m * 100 + d]
             ELSE NoDate

\* NICE_EDITION_TIMELINE: start and end date of each edition.
NICE_EDITION_TIMELINE ==
  [e \in {"7th", "8th", "9th", "10th", "11th", "12th"} |->
     CASE e = "7th" -> [start |-> "1992-01-01", end |-> "1996-12-31"]
       [] e = "8th" -> [start |-> "1997-01-01", end |-> "2001-12-31"]
       [] e = "9th" -> [start |-> "2002-01-01", end |-> "2006-12-31"]
       [] e = "10th" -> [start |-> "2007-01-01", end |-> "2011-12-31"]
       [] e = "11th" -> [start |-> "2012-01-01", end |-> "2022-12-31"]
       [] e = "12th" -> [start |-> "2023-01-01", end |-> "9999-12-31"]]

current_edition == "12th"

\* Section 1401.09: the claimed Nice edition against the filing date.
check_1401_09(app, fs) ==
  LET section == "1401.09"
      edition_used == app.nice_edition_claimed
      filing_date_str == app.filing_date
      detail == [edition |-> edition_used, filing_date |-> filing_date_str]
      filing_dt == ParseDate(filing_date_str)
      edition_start == ParseDate(NICE_EDITION_TIMELINE[edition_used].start)
      edition_end == ParseDate(NICE_EDITION_TIMELINE[edition_used].end)
  IN IF edition_used \notin DOMAIN NICE_EDITION_TIMELINE
     THEN fs \o <<Finding(section, "WARNING", 0, "Nice Edition", detail)>>
     ELSE IF filing_date_str = "" THEN fs
     ELSE IF ~filing_dt.ok
     THEN fs \o <<Finding(section, "INFO", 0, "Filing date format", NoDetail)>>
     ELSE IF filing_dt.ordinal < edition_start.ordinal
     THEN fs \o <<Finding(section, "ERROR", 0, "Edition/Date mismatch", detail)>>
     ELSE IF filing_dt.ordinal > edition_end.ordinal /\ edition_used # current_edition
     THEN fs \o <<Finding(section, "WARNING", 0, "Outdated edition", detail)>>
     ELSE fs \o <<Finding(section, "OK", 0, "Nice Edition Version Check", detail)>>

\* recently_added_terms: term and the date it entered the ID Manual.
recently_added_terms ==
  <<[term |-> "non-fungible token", added_after |-> "2022-01-01"],
    [term |-> "artificial intelligence", added_after |-> "2019-01-01"],
    [term |-> "cryptocurrency", added_after |-> "2014-01-01"]>>

EffectiveDate10Entry(filing_date_str, cls_entry) ==
  LET id_text_lower == Lower(cls_entry.identification)
      filing_dt == ParseDate(filing_date_str)
      One(term_info) ==
        IF ~Contains(id_text_lower, term_info.term) \/ filing_date_str = ""
           \/ ~filing_dt.ok
        THEN <<>>
        ELSE IF filing_dt.ordinal < ParseDate(term_info.added_after).ordinal
        THEN <<Finding("1401.10", "WARNING", cls_entry.class_number,
                       "ID Manual date check", [term |-> term_info.term])>>
        ELSE <<Finding("1401.10", "INFO", cls_entry.class_number,
                       "Modern term detected", [term |-> term_info.term])>>
  IN Flatten([k \in 1..Len(recently_added_terms) |-> One(recently_added_terms[k])])

\* Section 1401.10: effective date of ID Manual changes.
check_1401_10(app, fs) ==
  fs \o Flatten([i \in 1..Len(app.classes) |->
                   EffectiveDate10Entry(app.filing_date, app.classes[i])])
     \o <<Finding("1401.10", "INFO", 0, "ID Manual Compliance", NoDetail)>>

\* old_class_42_misplacements: service term and its class since the 8th edition.
old_class_42_misplacements ==
  <<<<"restaurant", 43>>, <<"food service", 43>>, <<"hotel", 43>>, <<"catering", 43>>,
    <<"accommodation", 43>>, <<"medical service", 44>>, <<"dental service", 44>>,
    <<"veterinary", 44>>, <<"beauty service", 44>>, <<"salon", 44>>,
    <<"healthcare", 44>>, <<"legal service", 45>>, <<"law firm", 45>>,
    <<"security guard", 45>>, <<"social service", 45>>>>

tech_service_keywords ==
  <<"software", "technology", "it service", "computer", "research", "cloud", "saas",
    "data", "programming", "cybersecurity", "network", "engineering service">>

edition_8_start == "2002-01-01"

Misplaced11Entry(cls_entry) ==
  LET id_text_lower == Lower(cls_entry.identification)
  IN IF cls_entry.class_number # 42 THEN <<>>
     ELSE Flatten([k \in 1..Len(old_class_42_misplacements) |->
            IF Contains(id_text_lower, old_class_42_misplacements[k][1])
            THEN <<Finding("1401.11", "ERROR", 42, "in Class 42",
                           [service_term |-> old_class_42_misplacements[k][1],
                            correct_class |-> old_class_42_misplacements[k][2]])>>
            ELSE <<>>])

DateBranch11(app) ==
  LET filing_dt == ParseDate(app.filing_date)
      n == Len(app.classes)
      split == {i \in 1..n : app.classes[i].class_number \in {43, 44, 45}}
      class_42_entries == SelectSeq(app.classes, LAMBDA c : c.class_number = 42)
  IN IF app.filing_date = "" \/ ~filing_dt.ok THEN <<>>
     ELSE IF filing_dt.ordinal < ParseDate(edition_8_start).ordinal
     THEN IF split = {} THEN <<>>
          ELSE <<Finding("1401.11", "INFO", app.classes[MinOf(split)].class_number,
                         "Pre-8th Edition filing", NoDetail)>>
     ELSE IF class_42_entries = <<>>
     THEN <<Finding("1401.11", "INFO", 0, "Class 42 Restructuring Check", NoDetail)>>
     ELSE Flatten([k \in 1..Len(class_42_entries) |->
            IF ContainsAny(Lower(class_42_entries[k].identification),
                           tech_service_keywords)
            THEN <<Finding("1401.11", "OK", 42, "Class 42 usage (post-8th Edition)",
                           NoDetail)>>
            ELSE <<>>])

\* Section 1401.11: the 8th edition split of class 42.
check_1401_11(app, fs) ==
  fs \o Flatten([i \in 1..Len(app.classes) |-> Misplaced11Entry(app.classes[i])])
     \o DateBranch11(app)

\* ninth_edition_changes: the term moved out of its old class.
ninth_edition_changes ==
  <<[old_class |-> 41, old_term |-> "Internet access provider", new_class |-> 38]>>

Ninth12Entry(cls_entry) ==
  LET id_text_lower == Lower(cls_entry.identification)
  IN Flatten([k \in 1..Len(ninth_edition_changes) |->
       IF /\ cls_entry.class_number = ninth_edition_changes[k].old_class
          /\ Contains(id_text_lower, Lower(ninth_edition_changes[k].old_term))
       THEN <<Finding("1401.12", "WARNING", cls_entry.class_number, "in Class",
                      [term |-> ninth_edition_changes[k].old_term,
                       new_class |-> ninth_edition_changes[k].new_class])>>
       ELSE <<>>])

\* Section 1401.12: 9th edition changes.
check_1401_12(app, fs) ==
  fs \o Flatten([i \in 1..Len(app.classes) |-> Ninth12Entry(app.classes[i])])
     \o <<Finding("1401.12", "INFO", 0, "9th Edition Nice Agreement Review", NoDetail)>>

digital_content_terms ==
  <<"downloadable music", "downloadable video", "downloadable ringtone",
    "downloadable image", "downloadable audio", "downloadable software",
    "downloadable ebook", "downloadable digital content">>

DigitalContentClass == 9

Tenth13Entry(cls_entry) ==
  LET id_text_lower == Lower(cls_entry.identification)
      n == cls_entry.class_number
  IN Flatten([k \in 1..Len(digital_content_terms) |->
       IF Contains(id_text_lower, digital_content_terms[k]) /\ n # DigitalContentClass
       THEN <<Finding("1401.13", "ERROR", n, "in Class",
                      [term |-> digital_content_terms[k]])>>
       ELSE <<>>])
     \o (IF n = DigitalContentClass /\ ContainsAny(id_text_lower, digital_content_terms)
         THEN <<Finding("1401.13", "OK", 9, "Class 9 - Downloadable digital content",
                        NoDetail)>>
         ELSE <<>>)

\* Section 1401.13: 10th edition, downloadable content belongs in class 9.
check_1401_13(app, fs) ==
  fs \o Flatten([i \in 1..Len(app.classes) |-> Tenth13Entry(app.classes[i])])

eleventh_edition_checks ==
  <<[term |-> "online marketplace", expected_class |-> 35,
     note |-> "11th Ed.: Online marketplace/platform services added explicitly to Class 35."],
    [term |-> "retail store", expected_class |-> 35,
     note |-> "11th Ed.: Online retail store services confirmed in Class 35."],
    [term |-> "social media", expected_class |-> 38,
     note |-> "11th Ed.: Social media platform services added to Class 38 (telecom)."],
    [term |-> "online social network", expected_class |-> 38,
     note |-> "11th Ed.: Online social networking services > Class 38."],
    [term |-> "saas", expected_class |-> 42,
     note |-> "11th Ed.: Software as a Service (SaaS) explicitly codified in Class 42."],
    [term |-> "cloud computing", expected_class |-> 42,
     note |-> "11th Ed.: Cloud computing services added to Class 42."],
    [term |-> "platform as a service", expected_class |-> 42,
     note |-> "11th Ed.: PaaS services > Class 42."]>>

Eleventh14Entry(cls_entry) ==
  LET id_text_lower == Lower(cls_entry.identification)
      n == cls_entry.class_number
  IN Flatten([k \in 1..Len(eleventh_edition_checks) |->
       LET check == eleventh_edition_checks[k]
       IN IF ~Contains(id_text_lower, check.term) THEN <<>>
          ELSE IF n # check.expected_class
          THEN <<Finding("1401.14", "ERROR", n, "in Class",
                         [term |-> check.term, expected_class |-> check.expected_class,
                          note |-> check.note])>>
          ELSE <<Finding("1401.14", "OK", n, "classification (11th Edition)",
                         [term |-> check.term])>>])

\* Section 1401.14: 11th edition changes.
check_1401_14(app, fs) ==
  fs \o Flatten([i \in 1..Len(app.classes) |-> Eleventh14Entry(app.classes[i])])

twelfth_edition_checks ==
  <<[term |-> "artificial intelligence", expected_class |-> 42,
     wrong_class_examples |-> {9, 35}],
    [term |-> "machine learning", expected_class |-> 42,
     wrong_class_examples |-> {9, 35}],
    [term |-> "non-fungible token", expected_class |-> 9,
     wrong_class_examples |-> {35, 36}],
    [term |-> "nft", expected_class |-> 9, wrong_class_examples |-> {35, 36, 42}],
    [term |-> "virtual goods", expected_class |-> 9, wrong_class_examples |-> {28, 35}],
    [term |-> "blockchain", expected_class |-> 42, wrong_class_examples |-> {9, 36}],
    [term |-> "metaverse", expected_class |-> 41, wrong_class_examples |-> {9, 42}]>>

Twelfth15Entry(cls_entry) ==
  LET id_text_lower == Lower(cls_entry.identification)
      n == cls_entry.class_number
  IN Flatten([k \in 1..Len(twelfth_edition_checks) |->
       LET check == twelfth_edition_checks[k]
       IN IF ~Contains(id_text_lower, check.term) THEN <<>>
          ELSE IF n \in check.wrong_class_examples
          THEN <<Finding("1401.15", "WARNING", n, "in Class", [term |-> check.term])>>
          ELSE IF n = check.expected_class
          THEN <<Finding("1401.15", "OK", n, "12th Edition compliance",
                         [term |-> check.term])>>
          ELSE <<>>])

\* Section 1401.15: 12th edition changes and the closing notice.
check_1401_15(app, fs) ==
  fs \o Flatten([i \in 1..Len(app.classes) |-> Twelfth15Entry(app.classes[i])])
     \o <<Finding("1401.15", "INFO", 0, "12th Edition (Current) Compliance", NoDetail)>>

(***************************************************************************)
(* The finding text of an ERROR finding, as far as consumers read it        *)
(***************************************************************************)

\* The elements of a finite set of integers in ascending order: sorted(S).
Sorted(S) ==
  [p \in 1..Cardinality(S) |-> CHOOSE x \in S : Cardinality({y \in S : y < x}) = p - 1]

\* ", ".join(map(str, q))
JoinInts(q) ==
  LET J[i \in 0..Len(q)] ==
        IF i = 0 THEN ""
        ELSE IF i = 1 THEN ToString(q[1])
        ELSE J[i - 1] \o ", " \o ToString(q[i])
  IN J[Len(q)]

\* The longest message slice a consumer takes: str(finding)[:100].
MessageSlice == 100

\* The finding field of each ERROR finding of Pillar 1, written out at least
\* as far as its first MessageSlice characters.
FindingTextHead(f) ==
  LET n == ToString(f.class_number)
      d == f.detail
  IN CASE f.tmep_section = "1401.01" ->
            "Invalid or unrecognized filing basis. USPTO jurisdiction requires "
            \o "a recognized basis under the Lanham Act."
       [] f.tmep_section = "1401.02" ->
            "Class number " \o n \o " is NOT a valid "
            \o "International (Nice) Classification number. "
            \o "Valid classes are 1-45 under the Nice Agreement."
       [] f.tmep_section = "1401.03" ->
            "MISCLASSIFICATION DETECTED: '" \o d.kw \o "' is placed in Class " \o n \o " "
            \o "(" \o d.title \o "), but this is incorrect. " \o d.reason
       [] f.tmep_section = "1401.04" /\ f.item = "Fee Shortage" ->
            "UNDERPAYMENT DETECTED: Application claims " \o ToString(d.num_distinct)
            \o " class(es) (" \o JoinInts(Sorted(d.distinct_classes)) \o ") but only "
            \o ToString(d.fees_paid) \o " fee(s) were submitted. Shortfall: "
            \o ToString(d.shortage) \o " fee(s) = $" \o ToString(d.amount) \o " at "
            \o d.filing_type \o " rate."
       [] f.tmep_section = "1401.04" ->
            "No filing fee has been paid for Class " \o n \o ". "
            \o "Per #1401.04, each class requires a separate fee."
       [] f.tmep_section = "1401.06" /\ f.item = "Specimen Missing" ->
            "No specimen was provided for Class " \o n \o ". "
            \o "For #1(a) use-based applications, a specimen showing actual "
            \o "use of the mark is required."
       [] f.tmep_section = "1401.06" ->
            "UNACCEPTABLE SPECIMEN for " \o d.category \o ": '" \o d.specimen_type \o "' "
            \o "is not an acceptable specimen for "
            \o (IF d.category = "GOODS" THEN "goods" ELSE "services")
            \o " in Class " \o n \o ". "
            \o (IF d.category = "GOODS"
                THEN "For goods, the specimen must show the mark directly on the goods, "
                     \o "their packaging, or a point-of-sale display."
                ELSE "For services, the specimen must show the mark being used in the "
                     \o "rendering or advertising of the services.")
       [] f.tmep_section = "1401.07" ->
            "RECLASSIFICATION REQUIRED: The specimen reveals special characteristics "
            \o "that conflict with the current class designation."
       [] f.tmep_section = "1401.09" ->
            "Filing date " \o d.filing_date \o " predates the " \o d.edition \o " Edition "
            \o "(effective " \o NICE_EDITION_TIMELINE[d.edition].start \o "). "
            \o "The edition claimed was not yet in effect at filing."
       [] f.tmep_section = "1401.11" ->
            "POST-8TH EDITION CLASS 42 VIOLATION: '" \o d.service_term \o "' is placed "
            \o "in Class 42, but this service was moved to Class "
            \o ToString(d.correct_class) \o " "
            \o "when the 8th Edition of the Nice Agreement restructured Class 42 "
       [] f.tmep_section = "1401.13" ->
            "10TH EDITION CHANGE VIOLATION: '" \o d.term \o "' is a DOWNLOADABLE DIGITAL "
            \o "PRODUCT. Per the 10th Edition expansion of Class 9 (effective 2007), "
       [] f.tmep_section = "1401.14" ->
            "11TH EDITION CHANGE: '" \o d.term \o "' should be in "
            \o "Class " \o ToString(d.expected_class) \o " per 11th Edition changes. "
            \o d.note \o " "
            \o "Currently placed in Class " \o n \o "."

\* str(finding)[:k] for k up to MessageSlice; every text above is complete up
\* to its first MessageSlice characters.
FindingText(f, k) == Take(FindingTextHead(f), k)

(***************************************************************************)
(* Pillar 1 run: TMEP1401Assessor(parse_application(d)).run_full_assessment *)
(***************************************************************************)

\* Longest class list and largest fee count of the applications examined.
MaxClasses == 2
MaxFees == 2

\* Class dicts the applications are assembled from: a correctly classified
\* use-based class, software filed under clothing on an intent-to-use basis
\* with defaults left out, class numbers on either side of 1..45, and a
\* services class hit by two table entries.
ClassDictPool ==
  { [class_number |-> 9,
     identification |-> "Downloadable software for financial management",
     specimen_type |-> "website screenshot",
     specimen_description |-> "screenshot of software download page",
     fee_paid |-> TRUE, filing_basis |-> "1(a)",
     date_of_first_use |-> "2023-05-01", date_of_first_use_commerce |-> "2023-06-01"],
    [class_number |-> 25,
     identification |-> "Software for inventory management",
     filing_basis |-> "1(b)"],
    [class_number |-> 46,
     identification |-> "Legal services; coffee shop",
     specimen_type |-> "", specimen_description |-> "",
     fee_paid |-> FALSE, filing_basis |-> "44(e)",
     date_of_first_use |-> "", date_of_first_use_commerce |-> ""],
    [class_number |-> 0,
     identification |-> "",
     specimen_type |-> "product label", specimen_description |-> "",
     fee_paid |-> TRUE, filing_basis |-> "1a"],
    [class_number |-> 35,
     identification |-> "Retail store services featuring apps, restaurant supplies",
     specimen_type |-> "invoice", specimen_description |-> "",
     fee_paid |-> TRUE, filing_basis |-> "1(a)",
     date_of_first_use |-> "2023-05-01"] }

\* A technology services class that also names a service the 8th edition
\* moved out of class 42.
Class42Dict ==
  [class_number |-> 42,
   identification |-> "SaaS featuring artificial intelligence; catering",
   specimen_type |-> "website screenshot",
   specimen_description |-> "menu of a restaurant",
   fee_paid |-> TRUE, filing_basis |-> "1(a)",
   date_of_first_use |-> "2023-05-01", date_of_first_use_commerce |-> "2023-06-01"]

\* The class dicts that differ in what the fee check reads.
FeeDictPool == {c \in ClassDictPool : c.class_number \in {25, 46, 0}}

\* All sequences over S of length at most n.
SeqsUpTo(S, n) == UNION {[1..k -> S] : k \in 0..n}

\* Filing dates: none, unparsable, no such day, before the 8th edition, under
\* the 10th edition, current.
FilingDates == {"", "not-a-date", "2023-02-30", "2001-06-15", "2010-03-01", "2024-01-01"}

\* Editions claimed: current, superseded, not in the timeline.
EditionsClaimed == {"12th", "10th", "13th"}

\* Two entries under one class number: an intent-to-use entry without a
\* specimen next to a use-based entry that lacks one or shows one.
SharedClassLists ==
  LET itu == [class_number |-> 25, identification |-> "Shirts", filing_basis |-> "1(b)"]
      others == { [class_number |-> 25, identification |-> "Hats", filing_basis |-> "1(a)"],
                  [class_number |-> 25, identification |-> "Software for inventory",
                   specimen_type |-> "advertisement",
                   specimen_description |-> "subscription login page",
                   filing_basis |-> "1(a)"] }
  IN { <<itu, c>> : c \in others } \cup { <<c, itu>> : c \in others }

\* Class lists that meet table entries whose correct class is the class they
\* are listed under.
DesignationLists ==
  { <<[class_number |-> 43, identification |-> "Restaurant and bar services",
       filing_basis |-> "1(b)"]>>,
    <<[class_number |-> 30, identification |-> "Coffee beverages; Coffee shop services",
       filing_basis |-> "1(b)"]>> }

\* The input dict of test_engine.py, by the fields parse_application reads
\* into what the checks use.
sample ==
  [filing_date |-> "2024-01-01", nice_edition_claimed |-> "12th",
   filing_type |-> "TEAS_PLUS", fees_paid_count |-> 1,
   classes |-> <<[class_number |-> 9,
                  identification |-> "Downloadable software for financial management",
                  specimen_type |-> "", specimen_description |-> "",
                  fee_paid |-> TRUE, filing_basis |-> "1(a)",
                  date_of_first_use |-> "", date_of_first_use_commerce |-> ""]>>]

\* Input dicts with a fees_paid_count, dicts without the key over every class
\* dict, one-class dicts over the filing dates and editions, and the lists of
\* two entries under one class number.
ApplicationDicts ==
  { [classes |-> cl, fees_paid_count |-> fp, filing_type |-> "TEAS_PLUS",
     filing_date |-> "2024-01-01", nice_edition_claimed |-> "12th"] :
      cl \in SeqsUpTo(FeeDictPool, MaxClasses), fp \in 0..MaxFees }
  \cup
  { [classes |-> cl, filing_type |-> "TEAS_PLUS",
     filing_date |-> "2024-01-01", nice_edition_claimed |-> "12th"] :
      cl \in SeqsUpTo(ClassDictPool, MaxClasses) }
  \cup
  { [classes |-> cl, filing_date |-> fd, nice_edition_claimed |-> ed] :
      cl \in SeqsUpTo(ClassDictPool \cup {Class42Dict}, 1),
      fd \in FilingDates, ed \in EditionsClaimed }
  \cup
  { [classes |-> cl, filing_date |-> "2024-01-01"] : cl \in SharedClassLists }
  \cup
  {sample}
  \cup
  { [classes |-> cl, filing_date |-> "2024-01-01"] : cl \in DesignationLists }

\* The assessor object is constructed over the parsed application.
app == parse_application(application_dict)

InitP1 ==
  /\ NICE_CLASSES = NiceClassesData
  /\ handed_out = NothingHandedOut
  /\ calls = <<>>
  /\ application_dict \in ApplicationDicts
  /\ findings = <<>>
  /\ p1_result = NoResult
  /\ pc = "run_full_assessment"
  /\ lens = NoLens
  /\ p2_result = NoResult
  /\ evaluations = <<>>
  /\ NoPillar3
  /\ NoPipeline

\* run_full_assessment starts by clearing the shared list.
P1Clear ==
  /\ pc = "run_full_assessment"
  /\ findings' = <<>>
  /\ pc' = "1401.01"
  /\ UNCHANGED <<NICE_CLASSES, callerVars, application_dict, p1_result, matcherVars, pillar2Vars,
               pillar3Vars, pipelineVars>>

P1Check01 ==
  /\ pc = "1401.01"
  /\ findings' = check_1401_01(app, findings)
  /\ pc' = "1401.02"
  /\ UNCHANGED <<NICE_CLASSES, callerVars, application_dict, p1_result, matcherVars, pillar2Vars,
               pillar3Vars, pipelineVars>>

\* The second check ending the run when it has found an ERROR.
P1Check02_StopsOnError ==
  /\ pc = "1401.02"
  /\ findings' = check_1401_02(app, findings)
  /\ pc' = IF \E k \in 1..Len(findings') : findings'[k].severity = "ERROR"
           THEN "assessed" ELSE "1401.03"
  /\ UNCHANGED <<NICE_CLASSES, callerVars, application_dict, p1_result, matcherVars, pillar2Vars,
               pillar3Vars, pipelineVars>>

P1Check02 ==
  /\ pc = "1401.02"
  /\ findings' = check_1401_02(app, findings)
  /\ pc' = "1401.03"
  /\ UNCHANGED <<NICE_CLASSES, callerVars, application_dict, p1_result, matcherVars, pillar2Vars,
               pillar3Vars, pipelineVars>>

P1Check03 ==
  /\ pc = "1401.03"
  /\ findings' = check_1401_03(app, findings)
  /\ pc' = "1401.04"
  /\ UNCHANGED <<NICE_CLASSES, callerVars, application_dict, p1_result, matcherVars, pillar2Vars,
               pillar3Vars, pipelineVars>>

P1Check04 ==
  /\ pc = "1401.04"
  /\ findings' = check_1401_04(app, findings)
  /\ pc' = "1401.05"
  /\ UNCHANGED <<NICE_CLASSES, callerVars, application_dict, p1_result, matcherVars, pillar2Vars,
               pillar3Vars, pipelineVars>>

P1Check05 ==
  /\ pc = "1401.05"
  /\ findings' = check_1401_05(app, findings)
  /\ pc' = "1401.06"
  /\ UNCHANGED <<NICE_CLASSES, callerVars, application_dict, p1_result, matcherVars, pillar2Vars,
               pillar3Vars, pipelineVars>>

P1Check06 ==
  /\ pc = "1401.06"
  /\ findings' = check_1401_06(app, findings)
  /\ pc' = "1401.07"
  /\ UNCHANGED <<NICE_CLASSES, callerVars, application_dict, p1_result, matcherVars, pillar2Vars,
               pillar3Vars, pipelineVars>>

P1Check07 ==
  /\ pc = "1401.07"
  /\ findings' = check_1401_07(app, findings)
  /\ pc' = "1401.08"
  /\ UNCHANGED <<NICE_CLASSES, callerVars, application_dict, p1_result, matcherVars, pillar2Vars,
               pillar3Vars, pipelineVars>>

P1Check08 ==
  /\ pc = "1401.08"
  /\ findings' = check_1401_08(app, findings)
  /\ pc' = "1401.09"
  /\ UNCHANGED <<NICE_CLASSES, callerVars, application_dict, p1_result, matcherVars, pillar2Vars,
               pillar3Vars, pipelineVars>>

P1Check09 ==
  /\ pc = "1401.09"
  /\ findings' = check_1401_09(app, findings)
  /\ pc' = "1401.10"
  /\ UNCHANGED <<NICE_CLASSES, callerVars, application_dict, p1_result, matcherVars, pillar2Vars,
               pillar3Vars, pipelineVars>>

P1Check10 ==
  /\ pc = "1401.10"
  /\ findings' = check_1401_10(app, findings)
  /\ pc' = "1401.11"
  /\ UNCHANGED <<NICE_CLASSES, callerVars, application_dict, p1_result, matcherVars, pillar2Vars,
               pillar3Vars, pipelineVars>>

P1Check11 ==
  /\ pc = "1401.11"
  /\ findings' = check_1401_11(app, findings)
  /\ pc' = "1401.12"
  /\ UNCHANGED <<NICE_CLASSES, callerVars, application_dict, p1_result, matcherVars, pillar2Vars,
               pillar3Vars, pipelineVars>>

P1Check12 ==
  /\ pc = "1401.12"
  /\ findings' = check_1401_12(app, findings)
  /\ pc' = "1401.13"
  /\ UNCHANGED <<NICE_CLASSES, callerVars, application_dict, p1_result, matcherVars, pillar2Vars,
               pillar3Vars, pipelineVars>>

P1Check13 ==
  /\ pc = "1401.13"
  /\ findings' = check_1401_13(app, findings)
  /\ pc' = "1401.14"
  /\ UNCHANGED <<NICE_CLASSES, callerVars, application_dict, p1_result, matcherVars, pillar2Vars,
               pillar3Vars, pipelineVars>>

P1Check14 ==
  /\ pc = "1401.14"
  /\ findings' = check_1401_14(app, findings)
  /\ pc' = "1401.15"
  /\ UNCHANGED <<NICE_CLASSES, callerVars, application_dict, p1_result, matcherVars, pillar2Vars,
               pillar3Vars, pipelineVars>>

P1Check15 ==
  /\ pc = "1401.15"
  /\ findings' = check_1401_15(app, findings)
  /\ pc' = "assessed"
  /\ UNCHANGED <<NICE_CLASSES, callerVars, application_dict, p1_result, matcherVars, pillar2Vars,
               pillar3Vars, pipelineVars>>

\* sum(1 for f in findings if f.severity == severity)
CountSeverity(fs, severity) == Len(SelectSeq(fs, LAMBDA f : f.severity = severity))

\* The counts by severity that assess_trademark_application returns with the
\* findings, every finding counted as OK.
P1ResultOf_CountsAllAsOk(fs) ==
  LET summary == [total |-> Len(fs),
                  errors |-> CountSeverity(fs, "ERROR"),
                  warnings |-> CountSeverity(fs, "WARNING"),
                  info |-> CountSeverity(fs, "INFO"),
                  ok |-> Len(fs)]
  IN [summary |-> summary,
      has_errors |-> summary.errors > 0,
      has_warnings |-> summary.warnings > 0]

\* The summary and the two flags that assess_trademark_application returns
\* with the findings.
P1ResultOf(fs) ==
  LET summary == [total |-> Len(fs),
                  errors |-> CountSeverity(fs, "ERROR"),
                  warnings |-> CountSeverity(fs, "WARNING"),
                  info |-> CountSeverity(fs, "INFO"),
                  ok |-> CountSeverity(fs, "OK")]
  IN [summary |-> summary,
      has_errors |-> summary.errors > 0,
      has_warnings |-> summary.warnings > 0]

\* run_full_assessment has returned; assess_trademark_application builds its
\* summary and returns.
P1Return ==
  /\ pc = "assessed"
  /\ p1_result' = P1ResultOf(findings)
  /\ handed_out' = HandOut1401(findings)
  /\ pc' = "p1_returned"
  /\ UNCHANGED <<NICE_CLASSES, application_dict, findings, matcherVars, pillar2Vars,
                 pillar3Vars, pipelineVars>>

NextP1 ==
  \/ P1Clear
  \/ P1Check01 \/ P1Check02 \/ P1Check03 \/ P1Check04 \/ P1Check05
  \/ P1Check06 \/ P1Check07 \/ P1Check08 \/ P1Check09 \/ P1Check10
  \/ P1Check11 \/ P1Check12 \/ P1Check13 \/ P1Check14 \/ P1Check15
  \/ P1Return

SpecP1 == InitP1 /\ [][NextP1]_vars

\* ---- Properties of the Pillar 1 run ----

\* The checks in the order run_full_assessment calls them.
P1Order ==
  <<"run_full_assessment", "1401.01", "1401.02", "1401.03", "1401.04", "1401.05",
    "1401.06", "1401.07", "1401.08", "1401.09", "1401.10", "1401.11", "1401.12",
    "1401.13", "1401.14", "1401.15", "assessed", "p1_returned">>

StepOf(label) == CHOOSE k \in 1..Len(P1Order) : P1Order[k] = label

\* The check of the given section has run in the current Pillar 1 run.
Ran(section) == pc \in Range(P1Order) /\ StepOf(pc) > StepOf(section)

FindingsOf(section) == SelectSeq(findings, LAMBDA f : f.tmep_section = section)

CountWhere(q, Test(_)) == Len(SelectSeq(q, Test))

DistinctClasses == {app.classes[i].class_number : i \in 1..Len(app.classes)}

\* The application-level fee-count findings of section 1401.04.
FeeCountFindings ==
  SelectSeq(findings, LAMBDA f : /\ f.tmep_section = "1401.04"
                                 /\ f.class_number = 0
                                 /\ f.item \in FeeCountItems)

\* C1 (as stated): fee count equal to the distinct class count gives OK, fewer
\* gives ERROR with shortage = distinct - paid, more gives WARNING with
\* excess = paid - distinct, for every application.
C1_FeeCheckEveryCount ==
  Ran("1401.04") =>
    /\ Len(FeeCountFindings) = 1
    /\ LET f == FeeCountFindings[1]
           paid == app.fees_paid_count
           distinct == Cardinality(DistinctClasses)
       IN /\ paid = distinct => f.severity = "OK"
          /\ paid < distinct => f.severity = "ERROR" /\ f.detail.shortage = distinct - paid
          /\ paid > distinct => f.severity = "WARNING" /\ f.detail.excess = paid - distinct

\* C1 (amended): the three cases hold whenever fees_paid_count is not 0; a
\* fees_paid_count of 0 is read as "not specified" and gives INFO.
C1_FeeCheckNonZeroCount ==
  Ran("1401.04") =>
    /\ Len(FeeCountFindings) = 1
    /\ LET f == FeeCountFindings[1]
           paid == app.fees_paid_count
           distinct == Cardinality(DistinctClasses)
       IN /\ paid = 0 => f.severity = "INFO"
          /\ paid # 0 /\ paid = distinct => f.severity = "OK"
          /\ paid # 0 /\ paid < distinct =>
               f.severity = "ERROR" /\ f.detail.shortage = distinct - paid
          /\ paid > distinct => f.severity = "WARNING" /\ f.detail.excess = paid - distinct

\* C1 witness: one fee paid for a class list that repeats its single class
\* number, judged OK after the fee check ran.
C1_Witness ==
  /\ Ran("1401.04")
  /\ Len(app.classes) > Cardinality(DistinctClasses)
  /\ app.fees_paid_count = 1
  /\ FeeCountFindings[1].severity = "OK"

\* C2: each class entry numbered outside 1..45 gets exactly one 1401.02 ERROR
\* under its class number, and 1401.02 then records no OK.
C2_InvalidClassOneError ==
  Ran("1401.02") =>
    \A i \in 1..Len(app.classes) :
      LET n == app.classes[i].class_number
      IN n \notin 1..45 =>
           /\ CountWhere(FindingsOf("1401.02"),
                         LAMBDA f : f.severity = "ERROR" /\ f.class_number = n)
                = CountWhere(app.classes, LAMBDA c : c.class_number = n)
           /\ CountWhere(FindingsOf("1401.02"), LAMBDA f : f.severity = "OK") = 0

\* C2 witness: class numbers below 1 and above 45 next to each other.
C2_Witness ==
  /\ Ran("1401.02")
  /\ \E i, j \in 1..Len(app.classes) :
       app.classes[i].class_number < 1 /\ app.classes[j].class_number > 45
  /\ Len(FindingsOf("1401.02")) = 2

\* C10: an entry filed under class 25 whose identification contains
\* "software" (in any letter case) gets a 1401.03 ERROR for class 25 that
\* names the (software, 25) -> 9 table entry, whatever else the application holds.
C10_SoftwareInClass25 ==
  Ran("1401.03") =>
    \A i \in 1..Len(app.classes) :
      (/\ app.classes[i].class_number = 25
       /\ Contains(Lower(app.classes[i].identification), "software"))
      => \E k \in 1..Len(findings) :
           /\ findings[k].tmep_section = "1401.03"
           /\ findings[k].severity = "ERROR"
           /\ findings[k].class_number = 25
           /\ findings[k].item = "misclassification"
           /\ findings[k].detail.kw = "software"
           /\ findings[k].detail.wrong_class = 25
           /\ findings[k].detail.correct_class = 9

\* C10 witness: "Software for inventory management" under class 25 after
\* another entry, with the designation check done.
C10_Witness ==
  /\ Ran("1401.03")
  /\ Len(app.classes) = 2
  /\ app.classes[2].class_number = 25
  /\ app.classes[2].identification = "Software for inventory management"
  /\ app.classes[1].class_number # 25

\* The entries of the application that satisfy a test.
EntriesWhere(Test(_)) == {i \in 1..Len(app.classes) : Test(app.classes[i])}

\* The entries filed under class number n with an intent-to-use basis and
\* neither a specimen type nor a specimen description.
IntentToUseNoSpecimen(n) ==
  EntriesWhere(LAMBDA e : /\ e.class_number = n
                          /\ e.filing_basis = "1(b)"
                          /\ e.specimen_type = "" /\ e.specimen_description = "")

\* The findings of a section with a given severity and class number.
FindingsFor(section, severity, n) ==
  SelectSeq(findings, LAMBDA f : /\ f.tmep_section = section
                                 /\ f.severity = severity
                                 /\ f.class_number = n)

\* C12: an entry with filing basis 1(b) and neither specimen type nor
\* specimen description gets an INFO from the specimen checks 1401.06-1401.07
\* and no ERROR: under every class number, 1401.06 gives one INFO per 1(b)
\* entry, its ERRORs are no more than the entries with another basis, and the
\* ERRORs of 1401.07 are no more than the entries that describe a specimen.
C12_IntentToUseNoSpecimenError ==
  Ran("1401.07") =>
    \A n \in DistinctClasses :
      /\ Len(FindingsFor("1401.06", "INFO", n))
           = Cardinality(EntriesWhere(LAMBDA e : e.class_number = n /\ e.filing_basis = "1(b)"))
      /\ Len(FindingsFor("1401.06", "ERROR", n))
           <= Cardinality(EntriesWhere(LAMBDA e : e.class_number = n /\ e.filing_basis # "1(b)"))
      /\ Len(FindingsFor("1401.07", "ERROR", n))
           <= Cardinality(EntriesWhere(LAMBDA e : e.class_number = n
                                                  /\ e.specimen_description # ""))

\* C12 witness: both specimen checks have run over an intent-to-use entry
\* without a specimen and a use-based entry of the same class that lacks one;
\* the class has one INFO and one ERROR from 1401.06.
C12_Witness ==
  /\ Ran("1401.07")
  /\ Len(app.classes) = 2
  /\ Cardinality(IntentToUseNoSpecimen(25)) = 1
  /\ Len(FindingsFor("1401.06", "INFO", 25)) = 1
  /\ Len(FindingsFor("1401.06", "ERROR", 25)) = 1

\* The indices of the findings of a given severity.
IndicesOf(severity) == {k \in 1..Len(findings) : findings[k].severity = severity}

\* One entry with a valid class number and an identification that no entry
\* of the misclassification table matches under that class, one fee paid.
RoundTripCase ==
  /\ Len(app.classes) = 1
  /\ app.classes[1].class_number \in 1..45
  /\ app.fees_paid_count = 1
  /\ \A k \in 1..Len(COMMON_MISCLASSIFICATIONS) :
       ~(/\ COMMON_MISCLASSIFICATIONS[k].wrong_class = app.classes[1].class_number
         /\ Contains(Lower(app.classes[1].identification),
                     COMMON_MISCLASSIFICATIONS[k].kw))

\* C13: when assess_trademark_application returns for one valid class entry
\* with one fee paid and an identification outside the misclassification
\* table, the findings hold a 1401.02 OK and a 1401.04 fee-count OK and no
\* 1401.03 ERROR; and the summary counts of every run equal the numbers of
\* findings of each severity.
C13_RoundTrip ==
  pc = "p1_returned" =>
    /\ RoundTripCase =>
         /\ \E k \in IndicesOf("OK") : findings[k].tmep_section = "1401.02"
         /\ Len(FeeCountFindings) = 1 /\ FeeCountFindings[1].severity = "OK"
         /\ \A k \in IndicesOf("ERROR") : findings[k].tmep_section # "1401.03"
    /\ p1_result.summary.total = Len(findings)
    /\ p1_result.summary.errors = Cardinality(IndicesOf("ERROR"))
    /\ p1_result.summary.warnings = Cardinality(IndicesOf("WARNING"))
    /\ p1_result.summary.info = Cardinality(IndicesOf("INFO"))
    /\ p1_result.summary.ok = Cardinality(IndicesOf("OK"))

\* C13 witness: the input of test_engine.py has gone through; its missing
\* specimen is counted as an error next to the OK findings.
C13_Witness ==
  /\ pc = "p1_returned"
  /\ application_dict = sample
  /\ RoundTripCase
  /\ p1_result.summary.errors > 0
  /\ p1_result.summary.ok > 1
  /\ p1_result.has_errors

\* The filing date is a non-empty string that is no date.
MalformedFilingDate == app.filing_date # "" /\ ~ParseDate(app.filing_date).ok

\* C14: for every application whose filing date is non-empty and cannot be
\* parsed, whatever the other fields hold, the run gets through all fifteen
\* checks and its findings hold an INFO noting the date parse failure.
C14_MalformedDateNoted ==
  (Ran("1401.15") /\ MalformedFilingDate)
    => \E k \in 1..Len(findings) :
         /\ findings[k].severity = "INFO"
         /\ findings[k].item = "Filing date format"

\* C16: run_full_assessment goes through the fifteen checks in the order
\* 1401.01 ... 1401.15 whatever the earlier checks found: the findings hold
\* only sections of checks that have run, their section tags never decrease
\* along the list, and once the last check has run the list holds the
\* findings that the first and the last check always leave.
C16_FixedSequence ==
  pc \in Range(P1Order) =>
    /\ \A k \in 1..Len(findings) : Ran(findings[k].tmep_section)
    /\ \A i, j \in 1..Len(findings) :
         i < j => StepOf(findings[i].tmep_section) <= StepOf(findings[j].tmep_section)
    /\ Ran("1401.15") => /\ FindingsOf("1401.01") # <<>>
                         /\ FindingsOf("1401.15") # <<>>

\* C16 witness: the run is over, the second check left an ERROR and checks
\* 1401.06, 1401.10 and 1401.15 left findings after it.
C16_Witness ==
  /\ pc = "assessed"
  /\ \E k \in 1..Len(findings) :
       findings[k].tmep_section = "1401.02" /\ findings[k].severity = "ERROR"
  /\ FindingsOf("1401.06") # <<>>
  /\ FindingsOf("1401.10") # <<>>
  /\ FindingsOf("1401.15") # <<>>

\* C24: the 1401.03 findings are, entry by entry, what the designation check
\* emits for that entry alone on an empty list: they depend on the entry's
\* class number and identification only, not on the findings of earlier
\* checks, of earlier entries or of a duplicate entry, nor on the order of
\* the entries.
C24_DesignationPerEntry ==
  Ran("1401.03") =>
    FindingsOf("1401.03")
      = Flatten([i \in 1..Len(app.classes) |-> Designation03Entry(<<>>, app.classes[i])])

\* The entries under the wrong class of table entry m whose lower-cased
\* identification contains its keyword.
EntriesHitBy(m) ==
  EntriesWhere(LAMBDA e : /\ e.class_number = m.wrong_class
                          /\ Contains(Lower(e.identification), m.kw))

\* The 1401.03 ERROR findings that name table entry m.
ErrorsNaming(m) ==
  SelectSeq(findings, LAMBDA f : /\ f.tmep_section = "1401.03"
                                 /\ f.severity = "ERROR"
                                 /\ f.class_number = m.wrong_class
                                 /\ f.item = "misclassification"
                                 /\ f.detail.kw = m.kw)

\* C17 (as stated): for every entry of the misclassification table, every
\* class entry under its wrong class whose lower-cased identification
\* contains its keyword gets a 1401.03 ERROR.
C17_EveryTableEntryError ==
  Ran("1401.03") =>
    \A k \in 1..Len(COMMON_MISCLASSIFICATIONS) :
      Len(ErrorsNaming(COMMON_MISCLASSIFICATIONS[k]))
        = Cardinality(EntriesHitBy(COMMON_MISCLASSIFICATIONS[k]))

\* C17 (amended): the same for the table entries whose correct class differs
\* from their wrong class; the entries that name one class twice raise
\* nothing.
C17_DifferingTableEntryError ==
  Ran("1401.03") =>
    \A k \in 1..Len(COMMON_MISCLASSIFICATIONS) :
      LET m == COMMON_MISCLASSIFICATIONS[k]
      IN Len(ErrorsNaming(m))
           = IF m.correct_class # m.wrong_class THEN Cardinality(EntriesHitBy(m)) ELSE 0

\* C17 witness: one class 35 entry hit by two table entries, "app" and
\* "restaurant", with an ERROR for each.
C17_Witness ==
  /\ Ran("1401.03")
  /\ \E i \in 1..Len(app.classes) :
       /\ app.classes[i].class_number = 35
       /\ Contains(Lower(app.classes[i].identification), "app")
       /\ Contains(Lower(app.classes[i].identification), "restaurant")
  /\ Cardinality({findings[k].detail.kw :
                    k \in {j \in IndicesOf("ERROR") :
                             findings[j].tmep_section = "1401.03"}}) = 2

(***************************************************************************)
(* Keyword matcher as a callable service: every call is one step           *)
(***************************************************************************)

\* Number of matcher calls followed in one behaviour.
MaxCalls == 2

\* Query terms: exact keywords, keywords inside longer text and the reverse,
\* word-level overlap, no match, mixed case and padding, and the empty term
\* (which every keyword contains).
Terms == {"software", "Software", "", "shoes", "computer software", "zzz",
          "legal services", "downloadable software for financial management", " app ",
          "shirt dress"}

InitKM ==
  /\ NICE_CLASSES = NiceClassesData
  /\ handed_out = NothingHandedOut
  /\ pc = "matcher"
  /\ calls = <<>>
  /\ application_dict = NoApplication
  /\ findings = <<>>
  /\ p1_result = NoResult
  /\ lens = NoLens
  /\ p2_result = NoResult
  /\ evaluations = <<>>
  /\ NoPillar3
  /\ NoPipeline

\* A caller invokes suggest_class_for_keyword(term) and keeps what it returns.
SuggestMutable(term) ==
  /\ pc = "matcher"
  /\ Len(calls) < MaxCalls
  /\ LET keyword_lower == Strip(Lower(term))
         carried == IF calls = <<>> THEN <<>> ELSE calls[Len(calls)][2]
         suggestions == SortByScoreDesc(carried \o ScoredClasses(keyword_lower, NiceClassKeys))
     IN calls' = Append(calls, <<term, SubSeq(suggestions, 1,
                         IF Len(suggestions) < TopN THEN Len(suggestions) ELSE TopN)>>)
  /\ UNCHANGED <<NICE_CLASSES, callerVars, pc, pillar1Vars, pillar2Vars, pillar3Vars, pipelineVars>>

Suggest(term) ==
  /\ pc = "matcher"
  /\ Len(calls) < MaxCalls
  /\ calls' = Append(calls, <<term, suggest_class_for_keyword(term)>>)
  /\ UNCHANGED <<NICE_CLASSES, callerVars, pc, pillar1Vars, pillar2Vars, pillar3Vars, pipelineVars>>

NextKM == \E term \in Terms : Suggest(term)

SpecKM == InitKM /\ [][NextKM]_vars

\* ---- Properties of the keyword matcher ----

LastCall == calls[Len(calls)]
NormalisedQuery(term) == Strip(Lower(term))
KeywordsOf(c) == NiceClassesData[c].keywords

ExactHit(q, kw) == q = kw
EitherContains(q, kw) == Contains(kw, q) \/ Contains(q, kw)
WordHit(q, kw) == \E i \in 1..Len(SplitWords(q)) : Contains(kw, SplitWords(q)[i])

\* Score when a keyword contributes only the first tier that applies.
TieredScore(q, kws) ==
    10 * Cardinality({j \in 1..Len(kws) : ExactHit(q, kws[j])})
  + 5 * Cardinality({j \in 1..Len(kws) : ~ExactHit(q, kws[j]) /\ EitherContains(q, kws[j])})
  + 2 * Cardinality({j \in 1..Len(kws) : /\ ~ExactHit(q, kws[j])
                                          /\ ~EitherContains(q, kws[j])
                                          /\ WordHit(q, kws[j])})

\* Score when every condition that holds for a keyword adds its contribution.
AdditiveScore(q, kws) ==
    10 * Cardinality({j \in 1..Len(kws) : ExactHit(q, kws[j])})
  + 5 * Cardinality({j \in 1..Len(kws) : EitherContains(q, kws[j])})
  + 2 * Cardinality({j \in 1..Len(kws) : WordHit(q, kws[j])})

C8_MatcherRanking ==
  calls # <<>> =>
    LET q == NormalisedQuery(LastCall[1])
        r == LastCall[2]
        positive == {c \in 1..45 : ClassScore(q, KeywordsOf(c)) > 0}
        returned == {r[i][1] : i \in 1..Len(r)}
    IN /\ Len(r) <= 5
       /\ Len(r) = (IF Cardinality(positive) < 5 THEN Cardinality(positive) ELSE 5)
       /\ \A i \in 1..Len(r) :
            /\ r[i][1] \in positive
            /\ r[i][3] = ClassScore(q, KeywordsOf(r[i][1]))
            /\ r[i][3] > 0
            /\ r[i][2] = NiceClassesData[r[i][1]].title
       /\ \A i, j \in 1..Len(r) :
            i < j => \/ r[i][3] > r[j][3]
                     \/ r[i][3] = r[j][3] /\ r[i][1] < r[j][1]
       /\ \A c \in positive \ returned : \A i \in 1..Len(r) :
            \/ r[i][3] > ClassScore(q, KeywordsOf(c))
            \/ r[i][3] = ClassScore(q, KeywordsOf(c)) /\ r[i][1] < c

\* C8 witness: more than 5 classes score, and the cut falls between two
\* classes of equal score.
C8_Witness ==
  /\ calls # <<>>
  /\ LET q == NormalisedQuery(LastCall[1])
         r == LastCall[2]
     IN /\ Len(r) = 5
        /\ \E c \in 1..45 : /\ \A i \in 1..5 : r[i][1] # c
                             /\ ClassScore(q, KeywordsOf(c)) = r[5][3]

\* C9 (as stated): every condition that holds for a keyword adds its own
\* contribution, so a keyword equal to the query adds 10 + 5 + 2.
C9_ScoreAddsEveryCondition ==
  calls # <<>> =>
    \A i \in 1..Len(LastCall[2]) :
      LastCall[2][i][3] =
        AdditiveScore(NormalisedQuery(LastCall[1]), KeywordsOf(LastCall[2][i][1]))

\* C9 (amended): a keyword contributes the first that applies of 10 (equal to
\* the lower-cased, stripped query), 5 (one contains the other), 2 (a word of
\* the query occurs in the keyword), and the class score is the sum over its
\* whole keyword list.
C9_ScoreFirstTierOnly ==
  calls # <<>> =>
    \A i \in 1..Len(LastCall[2]) :
      LastCall[2][i][3] =
        TieredScore(NormalisedQuery(LastCall[1]), KeywordsOf(LastCall[2][i][1]))

\* C9 witness: a returned class has keywords in all three tiers.
C9_Witness ==
  /\ calls # <<>>
  /\ \E i \in 1..Len(LastCall[2]) :
       LET q == NormalisedQuery(LastCall[1])
           kws == KeywordsOf(LastCall[2][i][1])
       IN /\ \E j \in 1..Len(kws) : ExactHit(q, kws[j])
          /\ \E j \in 1..Len(kws) : ~ExactHit(q, kws[j]) /\ EitherContains(q, kws[j])
          /\ \E j \in 1..Len(kws) : /\ ~EitherContains(q, kws[j])
                                      /\ WordHit(q, kws[j])

(***************************************************************************)
(* Pillar 2: TMEP1402Lens (tmep_1402_pillar2.py).  The regular expressions  *)
(* of the lens are evaluated character by character on the text.            *)
(***************************************************************************)

\* \w for the ASCII texts the model feeds in.
WordChars ==
  {"a", "b", "c", "d", "e", "f", "g", "h", "i", "j", "k", "l", "m", "n", "o", "p",
   "q", "r", "s", "t", "u", "v", "w", "x", "y", "z",
   "A", "B", "C", "D", "E", "F", "G", "H", "I", "J", "K", "L", "M", "N", "O", "P",
   "Q", "R", "S", "T", "U", "V", "W", "X", "Y", "Z",
   "0", "1", "2", "3", "4", "5", "6", "7", "8", "9", "_"}

IsWordAt(s, i) == i \in 1..Len(s) /\ CharAt(s, i) \in WordChars

\* \b between positions p and p+1 (p = 0 is the start, p = Len(s) the end).
WordBoundary(s, p) == IsWordAt(s, p) # IsWordAt(s, p + 1)

LiteralAt(s, i, lit) ==
  /\ i + Len(lit) - 1 <= Len(s)
  /\ SubSeq(s, i, i + Len(lit) - 1) = lit

\* \b lit \b matched at position i.
WordMatchAt(s, i, lit) ==
  /\ LiteralAt(s, i, lit)
  /\ WordBoundary(s, i - 1)
  /\ WordBoundary(s, i + Len(lit) - 1)

\* re.search(r"\b lit \b", s): s is already lower-cased for re.IGNORECASE.
SearchWord(s, lit) == \E i \in 1..Len(s) : WordMatchAt(s, i, lit)

SearchAnyWord(s, lits) == \E k \in 1..Len(lits) : SearchWord(s, lits[k])

\* len(re.findall(r"\b lit \b", s))
CountWord(s, lit) == Cardinality({i \in 1..Len(s) : WordMatchAt(s, i, lit)})

\* set(re.findall(r"\b\w{4,}\b", s)): the maximal runs of word characters
\* that are at least four characters long.
WordTokens(s) ==
  LET starts == {i \in 1..Len(s) : IsWordAt(s, i) /\ ~IsWordAt(s, i - 1)}
      EndOf(i) == MinOf({j \in i..Len(s) : ~IsWordAt(s, j + 1)})
  IN {SubSeq(s, i, EndOf(i)) : i \in {k \in starts : EndOf(k) - k + 1 >= 4}}

VAGUE_TERMS ==
  <<"including", "and related", "etc", "etc.", "products", "services",
    "solutions", "technology", "equipment", "devices", "materials", "systems",
    "components", "platform", "miscellaneous", "various", "all types", "any",
    "type of", "kind of", "and the like", "other">>

PURPOSE_PATTERNS == <<"for", "namely", "consisting of", "in the field of", "used for">>

BANNED_TERMS_1402_09 == <<"applicant", "registrant">>

\* r"\bservices in the (nature|field)\b" is written out as its two branches.
SERVICE_ACTIVITY_PATTERNS ==
  <<"services for", "services in the nature", "services in the field",
    "providing", "rendering", "offering", "consulting">>

\* The Pillar1ClassContext argument when the lens runs standalone.
NoContext == [none |-> TRUE]

HasContext(p1) == "none" \notin DOMAIN p1

\* extract_candidate_goods
extract_candidate_goods(text) == StripNonEmpty(SplitOn(text, {";"}))

\* detect_purpose_language
detect_purpose_language(text) == SearchAnyWord(Lower(text), PURPOSE_PATTERNS)

\* rf"\b{term}(?:\b|\.|\s|$)" matched at position i.
VagueMatchAt(s, i, term) ==
  LET e == i + Len(term) - 1
  IN /\ LiteralAt(s, i, term)
     /\ WordBoundary(s, i - 1)
     /\ \/ WordBoundary(s, e)
        \/ e = Len(s)
        \/ CharAt(s, e + 1) = "."
        \/ CharAt(s, e + 1) \in WhitespaceChars

VagueSearch(s, term) == \E i \in 1..Len(s) : VagueMatchAt(s, i, term)

\* r"\bservices\s+(for|in|of|namely|consisting)\b"
ServicesQualified(s) ==
  \E i \in 1..Len(s) :
    /\ LiteralAt(s, i, "services")
    /\ WordBoundary(s, i - 1)
    /\ LET after == i + 8
           j == MinOf({k \in after..(Len(s) + 1) :
                         k = Len(s) + 1 \/ CharAt(s, k) \notin WhitespaceChars})
       IN /\ j > after
          /\ \E w \in {"for", "in", "of", "namely", "consisting"} :
               LiteralAt(s, j, w) /\ WordBoundary(s, j + Len(w) - 1)

\* detect_vague_terms (VAGUE_TERMS holds no term twice, so "not in found" is
\* always true when a term is reached).
detect_vague_terms(text) ==
  LET s == Lower(text)
  IN SelectSeq(VAGUE_TERMS,
               LAMBDA term : /\ VagueSearch(s, term)
                             /\ term = "services" => ~ServicesQualified(s))

BracketChars == {"(", ")", "[", "]", "{", "}"}

ExcessiveAnd == "Excessive conjunction stacking ('and') may indicate over-breadth."
BracketsDetected == "Parentheses or brackets detected. Prohibited under TMEP 1402.12."

AndLimit == 3

\* detect_structural_issues looking for round parentheses only.
detect_structural_issues_RoundOnly(text) ==
  (IF CountWord(Lower(text), "and") > AndLimit THEN <<ExcessiveAnd>> ELSE <<>>)
  \o (IF \E i \in 1..Len(text) : CharAt(text, i) \in {"(", ")"}
      THEN <<BracketsDetected>> ELSE <<>>)

\* detect_structural_issues
detect_structural_issues(text) ==
  (IF CountWord(Lower(text), "and") > AndLimit THEN <<ExcessiveAnd>> ELSE <<>>)
  \o (IF \E i \in 1..Len(text) : CharAt(text, i) \in BracketChars
      THEN <<BracketsDetected>> ELSE <<>>)

SubsectionFinding(section, severity, item, detail) ==
  [tmep_section |-> section, severity |-> severity, item |-> item, detail |-> detail]

\* _check_1402_01
check_1402_01(segments) ==
  IF segments = <<>>
  THEN SubsectionFinding("1402.01", "ERROR", "Identification text", NoDetail)
  ELSE SubsectionFinding("1402.01", "OK", "item(s) identified", [count |-> Len(segments)])

placeholders ==
  <<"tbd", "to be determined", "see attached", "n/a", "[insert]", "xxx",
    "your goods here">>

MinIdentificationLength == 10

\* _check_1402_02
check_1402_02(text) ==
  LET text_lower == Strip(Lower(text))
  IN IF ContainsAny(text_lower, placeholders)
     THEN SubsectionFinding("1402.02", "ERROR", "Placeholder text detected", NoDetail)
     ELSE IF Len(text_lower) < MinIdentificationLength
     THEN SubsectionFinding("1402.02", "ERROR", "Identification too short", NoDetail)
     ELSE SubsectionFinding("1402.02", "OK", "Filing date entitlement", NoDetail)

SevereVagueTerms ==
  <<"miscellaneous", "various", "all types", "any", "and the like", "etc", "etc.">>

\* A variant of the severity split that treats "etc" as a mild term.
check_1402_03_EtcMild(vague_found) ==
  LET severe_vague == SelectSeq(vague_found,
                                LAMBDA t : t \in Range(SevereVagueTerms) \ {"etc", "etc."})
      mild_vague == SelectSeq(vague_found, LAMBDA t : t \notin Range(severe_vague))
  IN IF severe_vague # <<>>
     THEN SubsectionFinding("1402.03", "ERROR", "Indefinite terms", severe_vague)
     ELSE IF mild_vague # <<>>
     THEN SubsectionFinding("1402.03", "WARNING", "Potentially vague terms", mild_vague)
     ELSE SubsectionFinding("1402.03", "OK", "Specificity check", NoDetail)

\* _check_1402_03
check_1402_03(vague_found) ==
  LET severe_vague == SelectSeq(vague_found, LAMBDA t : t \in Range(SevereVagueTerms))
      mild_vague == SelectSeq(vague_found, LAMBDA t : t \notin Range(severe_vague))
  IN IF severe_vague # <<>>
     THEN SubsectionFinding("1402.03", "ERROR", "Indefinite terms", severe_vague)
     ELSE IF mild_vague # <<>>
     THEN SubsectionFinding("1402.03", "WARNING", "Potentially vague terms", mild_vague)
     ELSE SubsectionFinding("1402.03", "OK", "Specificity check", NoDetail)

MinSpecimenWords == 3
OverlapPercent == 10

\* A variant of the accuracy check that looks at the filing basis before the
\* Pillar 1 class error.
check_1402_05_BasisFirst(text, p1) ==
  IF ~HasContext(p1)
  THEN SubsectionFinding("1402.05", "INFO", "Accuracy check (no Pillar 1 context)", NoDetail)
  ELSE IF p1.filing_basis = "1(b)"
  THEN SubsectionFinding("1402.05", "INFO", "1(b) accuracy standard",
                         [class_number |-> p1.class_number])
  ELSE IF p1.has_pillar1_class_error
  THEN SubsectionFinding("1402.05", "WARNING", "Accuracy deferred",
                         [class_number |-> p1.class_number])
  ELSE IF p1.specimen_description = ""
  THEN SubsectionFinding("1402.05", "INFO", "No specimen description from Pillar 1", NoDetail)
  ELSE LET id_words == WordTokens(Lower(text))
           spec_words == WordTokens(Lower(p1.specimen_description))
           overlap == id_words \cap spec_words
           low == /\ 100 * Cardinality(overlap)
                       < OverlapPercent * MaxOf({Cardinality(spec_words), 1})
                  /\ Cardinality(spec_words) > MinSpecimenWords
       IN IF low
          THEN SubsectionFinding("1402.05", "WARNING",
                                 "Low overlap between identification and specimen",
                                 [overlap |-> Cardinality(overlap),
                                  spec_words |-> Cardinality(spec_words)])
          ELSE SubsectionFinding("1402.05", "OK", "Accuracy vs. specimen",
                                 [overlap |-> Cardinality(overlap),
                                  spec_words |-> Cardinality(spec_words)])

\* _check_1402_05: overlap / max(n, 1) < 0.1 in integers is 10 * overlap < n
\* (for n = 0 the second test of the condition is false anyway).
check_1402_05(text, p1) ==
  IF ~HasContext(p1)
  THEN SubsectionFinding("1402.05", "INFO", "Accuracy check (no Pillar 1 context)", NoDetail)
  ELSE IF p1.has_pillar1_class_error
  THEN SubsectionFinding("1402.05", "WARNING", "Accuracy deferred",
                         [class_number |-> p1.class_number])
  ELSE IF p1.filing_basis = "1(b)"
  THEN SubsectionFinding("1402.05", "INFO", "1(b) accuracy standard",
                         [class_number |-> p1.class_number])
  ELSE IF p1.specimen_description = ""
  THEN SubsectionFinding("1402.05", "INFO", "No specimen description from Pillar 1", NoDetail)
  ELSE LET id_words == WordTokens(Lower(text))
           spec_words == WordTokens(Lower(p1.specimen_description))
           overlap == id_words \cap spec_words
           low == /\ 100 * Cardinality(overlap)
                       < OverlapPercent * MaxOf({Cardinality(spec_words), 1})
                  /\ Cardinality(spec_words) > MinSpecimenWords
       IN IF low
          THEN SubsectionFinding("1402.05", "WARNING",
                                 "Low overlap between identification and specimen",
                                 [overlap |-> Cardinality(overlap),
                                  spec_words |-> Cardinality(spec_words)])
          ELSE SubsectionFinding("1402.05", "OK", "Accuracy vs. specimen",
                                 [overlap |-> Cardinality(overlap),
                                  spec_words |-> Cardinality(spec_words)])

\* _check_1402_09
check_1402_09(text) ==
  LET found_banned == SelectSeq(BANNED_TERMS_1402_09,
                                LAMBDA term : SearchWord(Lower(text), term))
  IN IF found_banned # <<>>
     THEN SubsectionFinding("1402.09", "ERROR", "Banned terms found", found_banned)
     ELSE SubsectionFinding("1402.09", "OK", "Banned terms check", NoDetail)

future_tense_patterns == <<"will", "intend", "planning to", "proposed", "future">>

\* _check_1402_10
check_1402_10(text, p1) ==
  LET basis == IF HasContext(p1) THEN p1.filing_basis ELSE "1(a)"
      found_future == SelectSeq(future_tense_patterns,
                                LAMBDA w : SearchWord(Lower(text), w))
  IN IF basis # "1(b)"
     THEN SubsectionFinding("1402.10", "INFO", "Filing basis", [basis |-> basis])
     ELSE IF found_future # <<>>
     THEN SubsectionFinding("1402.10", "WARNING",
                            "Future-tense language in 1(b) identification", found_future)
     ELSE SubsectionFinding("1402.10", "OK", "1(b) identification format", NoDetail)

\* r"\bthe company'?s\b" is written out as its two readings.
internal_patterns == <<"our", "my", "the companys", "the company's", "internal">>

\* _check_1402_11
check_1402_11(text, p1) ==
  LET s == Lower(text)
      is_services == IF HasContext(p1)
                     THEN p1.class_category = "SERVICES"
                     ELSE SearchWord(s, "service") \/ SearchWord(s, "services")
      has_service_activity == SearchAnyWord(s, SERVICE_ACTIVITY_PATTERNS)
      has_internal == SearchAnyWord(s, internal_patterns)
  IN IF ~is_services
     THEN SubsectionFinding("1402.11", "INFO", "1402.11 services check", NoDetail)
     ELSE IF has_internal
     THEN SubsectionFinding("1402.11", "ERROR",
                            "Internal-activity language in service identification", NoDetail)
     ELSE IF ~has_service_activity
     THEN SubsectionFinding("1402.11", "WARNING", "Service identification format", NoDetail)
     ELSE SubsectionFinding("1402.11", "OK", "Service activity format", NoDetail)

\* _check_1402_12
check_1402_12(structural_issues) ==
  LET bracket_issues == SelectSeq(structural_issues,
                                  LAMBDA i : Contains(i, "Parentheses") \/ Contains(i, "brackets"))
  IN IF bracket_issues # <<>>
     THEN SubsectionFinding("1402.12", "ERROR", "Parentheses/brackets in identification",
                            bracket_issues[1])
     ELSE SubsectionFinding("1402.12", "OK", "Parentheses/brackets check", NoDetail)

\* The eight checks in the order evaluate() lists them.
SubsectionFindings(text, p1) ==
  <<check_1402_01(extract_candidate_goods(text)),
    check_1402_02(text),
    check_1402_03(detect_vague_terms(text)),
    check_1402_05(text, p1),
    check_1402_09(text),
    check_1402_10(text, p1),
    check_1402_11(text, p1),
    check_1402_12(detect_structural_issues(text))>>

\* The TMEP1402AnalysisResult that evaluate() assembles.
EvaluateWith(text, p1, fs, is_definite) ==
  [is_definite |-> is_definite,
   identified_goods_services |-> extract_candidate_goods(text),
   purpose_detected |-> detect_purpose_language(text),
   vague_terms_found |-> detect_vague_terms(text),
   structural_issues |-> detect_structural_issues(text),
   subsection_findings |-> fs]

\* A variant of the gate that lets warnings block definiteness as well.
evaluate_WarningsBlock(text, p1) ==
  LET fs == SubsectionFindings(text, p1)
  IN EvaluateWith(text, p1, fs,
                  CountSeverity(fs, "ERROR") = 0 /\ CountSeverity(fs, "WARNING") = 0)

\* TMEP1402Lens.evaluate
evaluate(text, p1) ==
  LET fs == SubsectionFindings(text, p1)
  IN EvaluateWith(text, p1, fs, CountSeverity(fs, "ERROR") = 0)

\* analyze_identification_under_tmep_1402
analyze_identification_under_tmep_1402(identification_text, pillar1_context) ==
  LET result == evaluate(identification_text, pillar1_context)
      fs == result.subsection_findings
  IN [verbatim_text |-> identification_text,
      tmep_1402_analysis |-> result,
      summary |-> [total_findings |-> Len(fs),
                   errors |-> CountSeverity(fs, "ERROR"),
                   warnings |-> CountSeverity(fs, "WARNING"),
                   info |-> CountSeverity(fs, "INFO"),
                   ok |-> CountSeverity(fs, "OK"),
                   is_definite |-> result.is_definite]]

\* ---- Pillar 2 as a callable service ----

MaxAmendments == 1

\* Pillar1ClassContext as build_pillar1_context_from_dicts fills it for a
\* class entry, given what Pillar 1 found for the class.
MakeContext(class_number, filing_basis, specimen_type, specimen_description,
            has_error, has_warning) ==
  LET info == get_class_info(class_number)
  IN [class_number |-> class_number,
      class_title |-> IF info = NoClassInfo THEN "" ELSE info.title,
      class_category |-> IF info = NoClassInfo THEN "" ELSE info.category,
      filing_basis |-> filing_basis,
      specimen_type |-> specimen_type,
      specimen_description |-> specimen_description,
      has_pillar1_class_error |-> has_error,
      has_pillar1_class_warning |-> has_warning]

IdentificationTexts ==
  {"Downloadable software for financial management",
   "Computer software (downloadable)",
   "Legal services",
   "",
   "TBD",
   "Clothing, namely shirts and various accessories",
   "Providing our internal consulting services for the applicant",
   "Software that will be used for planning; proposed future equipment",
   "Shirts and pants and socks and hats and shoes",
   "Retail store services featuring clothing",
   "Consulting services in the field of software design",
   "Cotton shirts [short sleeved]",
   "Plush toys {stuffed}, etc.",
   "shoes"}

Contexts ==
  {NoContext,
   MakeContext(9, "1(a)", "website screenshot",
               "Screenshot showing downloadable financial management software", FALSE, FALSE),
   MakeContext(9, "1(a)", "website screenshot",
               "Screenshot showing downloadable financial management software", TRUE, FALSE),
   MakeContext(35, "1(b)", "", "", FALSE, TRUE),
   MakeContext(35, "1(b)", "", "", TRUE, FALSE),
   MakeContext(45, "1(a)", "brochure",
               "Brochure advertising restaurant catering menu prices", FALSE, FALSE),
   MakeContext(25, "1(a)", "", "", FALSE, FALSE)}

\* The ways an applicant writes one more term into an identification.
AmendedTexts(text, term) ==
  {text \o " " \o term, term \o "; " \o text}

InitP2 ==
  /\ NICE_CLASSES = NiceClassesData
  /\ handed_out = NothingHandedOut
  /\ pc = "pillar2"
  /\ calls = <<>>
  /\ application_dict = NoApplication
  /\ findings = <<>>
  /\ p1_result = NoResult
  /\ lens = NoLens
  /\ p2_result = NoResult
  /\ evaluations = <<>>
  /\ NoPillar3
  /\ NoPipeline

\* A caller hands a text and a context to analyze_identification_under_tmep_1402.
AnalyzeWith(text, p1, result) ==
  /\ lens' = [text |-> text, p1 |-> p1]
  /\ p2_result' = result
  /\ evaluations' = Append(evaluations, [text |-> text, p1 |-> p1, result |-> result])
  /\ UNCHANGED <<NICE_CLASSES, callerVars, pc, matcherVars, pillar1Vars, pillar3Vars, pipelineVars>>

P2Analyze ==
  /\ pc = "pillar2"
  /\ evaluations = <<>>
  /\ \E text \in IdentificationTexts, p1 \in Contexts :
       AnalyzeWith(text, p1, analyze_identification_under_tmep_1402(text, p1))

\* The identification is amended by one severely indefinite term and the
\* amended text is analysed in the same context.
P2AnalyzeAmended ==
  /\ pc = "pillar2"
  /\ Len(evaluations) \in 1..MaxAmendments
  /\ \E k \in 1..Len(SevereVagueTerms) :
       \E text \in AmendedTexts(lens.text, SevereVagueTerms[k]) :
         AnalyzeWith(text, lens.p1, analyze_identification_under_tmep_1402(text, lens.p1))

NextP2 == P2Analyze \/ P2AnalyzeAmended

SpecP2 == InitP2 /\ [][NextP2]_vars

\* ---- Properties of Pillar 2 ----

Analysis(k) == evaluations[k].result.tmep_1402_analysis

SectionsOf(fs) == [i \in 1..Len(fs) |-> fs[i].tmep_section]

Pillar2Sections ==
  <<"1402.01", "1402.02", "1402.03", "1402.05", "1402.09", "1402.10", "1402.11",
    "1402.12">>

\* C4: every evaluation yields the eight subsection findings 1402.01, .02,
\* .03, .05, .09, .10, .11, .12 in that order, and is_definite is true exactly
\* when none of them is an ERROR, so warnings alone never block it.
C4_EightFindingsErrorGate ==
  \A k \in 1..Len(evaluations) :
    /\ SectionsOf(Analysis(k).subsection_findings) = Pillar2Sections
    /\ Analysis(k).is_definite
         <=> (\A i \in 1..8 : Analysis(k).subsection_findings[i].severity # "ERROR")

\* C4 witness: an evaluation with two warnings, no error and is_definite true.
C4_Witness ==
  /\ evaluations # <<>>
  /\ CountSeverity(Analysis(1).subsection_findings, "WARNING") >= 2
  /\ CountSeverity(Analysis(1).subsection_findings, "ERROR") = 0
  /\ Analysis(1).is_definite

\* C5: when a definite identification is amended by one severely indefinite
\* term, written as a word of its own, the amended text is not definite,
\* whatever the Pillar 1 context.
C5_SevereVagueTermFlips ==
  \A k \in 2..Len(evaluations) :
    Analysis(k - 1).is_definite => ~Analysis(k).is_definite

\* C5 witness: a definite text with a Pillar 1 context, then the same text
\* with "etc" appended, found indefinite by 1402.03.
C5_Witness ==
  /\ Len(evaluations) = 2
  /\ Analysis(1).is_definite
  /\ HasContext(evaluations[1].p1)
  /\ evaluations[2].text = evaluations[1].text \o " etc"
  /\ Analysis(2).subsection_findings[3].severity = "ERROR"
  /\ ~Analysis(2).is_definite

\* The text holds a parenthesis, a square bracket or a curly brace.
HasBracket(text) == \E i \in 1..Len(text) : CharAt(text, i) \in {"(", ")", "[", "]", "{", "}"}

\* C11: whenever the identification holds a parenthesis, a square bracket or
\* a curly brace, the 1402.12 finding is an ERROR in every Pillar 1 context
\* and whatever the other seven checks find, and is_definite is false.
C11_BracketsAreErrors ==
  \A k \in 1..Len(evaluations) :
    HasBracket(evaluations[k].text)
      => /\ Analysis(k).subsection_findings[8].tmep_section = "1402.12"
         /\ Analysis(k).subsection_findings[8].severity = "ERROR"
         /\ ~Analysis(k).is_definite

\* C11 witness: square brackets in a text that no other check objects to,
\* analysed with a Pillar 1 context: 1402.12 is the only ERROR.
C11_Witness ==
  /\ evaluations # <<>>
  /\ evaluations[1].text = "Cotton shirts [short sleeved]"
  /\ evaluations[1].p1 # NoContext
  /\ Analysis(1).subsection_findings[8].severity = "ERROR"
  /\ CountSeverity(Analysis(1).subsection_findings, "ERROR") = 1

\* The severities of the 1402.05 findings of the k-th analysis.
AccuracySeverities(k) ==
  {f.severity : f \in {g \in Range(Analysis(k).subsection_findings) :
                          g.tmep_section = "1402.05"}}

\* Fewer than one in ten of the specimen's words of four characters or more
\* are words of the identification, and the specimen has more than three.
LowOverlap(text, specimen_description) ==
  LET id_words == WordTokens(Lower(text))
      spec_words == WordTokens(Lower(specimen_description))
  IN /\ Cardinality(spec_words) > 3
     /\ 10 * Cardinality(id_words \cap spec_words) < Cardinality(spec_words)

\* C18 (as stated): the 1402.05 finding is INFO without a Pillar 1 context;
\* otherwise WARNING when Pillar 1 flagged a class error; otherwise INFO for
\* an intent-to-use basis; otherwise WARNING exactly when the overlap is low,
\* and OK in every remaining case.
C18_AccuracyPrecedence ==
  \A k \in 1..Len(evaluations) :
    LET p1 == evaluations[k].p1
    IN AccuracySeverities(k) =
         {IF ~HasContext(p1) THEN "INFO"
          ELSE IF p1.has_pillar1_class_error THEN "WARNING"
          ELSE IF p1.filing_basis = "1(b)" THEN "INFO"
          ELSE IF LowOverlap(evaluations[k].text, p1.specimen_description) THEN "WARNING"
          ELSE "OK"}

\* C18 (amended): the same precedence with one more step before the overlap
\* test: a context without a specimen description gives INFO.
C18_AccuracyPrecedenceWithSpecimen ==
  \A k \in 1..Len(evaluations) :
    LET p1 == evaluations[k].p1
    IN AccuracySeverities(k) =
         {IF ~HasContext(p1) THEN "INFO"
          ELSE IF p1.has_pillar1_class_error THEN "WARNING"
          ELSE IF p1.filing_basis = "1(b)" THEN "INFO"
          ELSE IF p1.specimen_description = "" THEN "INFO"
          ELSE IF LowOverlap(evaluations[k].text, p1.specimen_description) THEN "WARNING"
          ELSE "OK"}

\* C18 witness: a use-based context without a class error whose specimen
\* shares no word with the identification gets the WARNING, and the same
\* identification amended is analysed again.
C18_Witness ==
  /\ Len(evaluations) >= 2
  /\ HasContext(evaluations[1].p1)
  /\ ~evaluations[1].p1.has_pillar1_class_error
  /\ evaluations[1].p1.filing_basis = "1(a)"
  /\ LowOverlap(evaluations[1].text, evaluations[1].p1.specimen_description)
  /\ AccuracySeverities(1) = {"WARNING"}

(***************************************************************************)
(* Pillar 3: multi-class applications (tmep_1403_pillar3.py)               *)
(***************************************************************************)

\* ApplicationStage
ApplicationStages ==
  {"PRE_FILING", "FILED_PENDING", "OFFICE_ACTION", "STATEMENT_OF_USE", "REGISTERED",
   "POST_REGISTRATION"}

\* ClassSummary methods.
has_any_error(cls) == cls.p1_error_count > 0 \/ cls.p2_error_count > 0
has_any_warning(cls) == cls.p1_warning_count > 0 \/ cls.p2_warning_count > 0
is_use_based(cls) == cls.filing_basis \in {"1(a)", "44(e)"}
is_intent_to_use(cls) == cls.filing_basis = "1(b)"

\* "not s" for an optional string: None or empty.
Falsy(s) == s = None \/ s = ""

\* The text of a Pillar 2 finding, cut to its first k characters.  Pillar 3
\* copies these texts into its own wording and never looks inside them, so a
\* text is carried as the finding it is the text of.
SubsectionText(sf, k) == [tmep_section |-> sf.tmep_section, item |-> sf.item, cut |-> k]

RefusalCandidateErrors == 3

\* A variant of the status rule that looks at warnings before errors.
StatusOf_WarningsFirst(total_errors, total_warnings) ==
  IF total_warnings > 0 THEN "HAS_WARNINGS"
  ELSE IF total_errors >= RefusalCandidateErrors THEN "REFUSAL_CANDIDATE"
  ELSE IF total_errors > 0 THEN "HAS_ERRORS"
  ELSE "CLEAN"

\* ClassStatus from the consolidated counts.
StatusOf(total_errors, total_warnings) ==
  IF total_errors >= RefusalCandidateErrors THEN "REFUSAL_CANDIDATE"
  ELSE IF total_errors > 0 THEN "HAS_ERRORS"
  ELSE IF total_warnings > 0 THEN "HAS_WARNINGS"
  ELSE "CLEAN"

ErrorMessagesKept == 3

\* build_class_summary; p2_result_dict is NoResult where the caller passes None.
build_class_summary(class_entry_dict, p1_findings, p2_result_dict) ==
  LET cls_num == DictGet(class_entry_dict, "class_number", 0)
      given_title == DictGet(class_entry_dict, "class_title", "")
      given_category == DictGet(class_entry_dict, "class_category", "")
      info == get_class_info(cls_num)
      lookup == (given_title = "" \/ given_category = "") /\ info # NoClassInfo
      cls_p1_findings == SelectSeq(p1_findings,
                           LAMBDA f : f.class_number = cls_num \/ f.class_number = 0)
      p1_errors == SelectSeq(cls_p1_findings, LAMBDA f : f.severity = "ERROR")
      p1_warnings == SelectSeq(cls_p1_findings, LAMBDA f : f.severity = "WARNING")
      kept == Take(p1_errors, ErrorMessagesKept)
      has_p2 == p2_result_dict # NoResult
      p2_errors == IF has_p2 THEN p2_result_dict.summary.errors ELSE 0
      p2_warnings == IF has_p2 THEN p2_result_dict.summary.warnings ELSE 0
      p2_error_findings ==
        IF has_p2
        THEN SelectSeq(p2_result_dict.tmep_1402_analysis.subsection_findings,
                       LAMBDA sf : sf.severity = "ERROR")
        ELSE <<>>
  IN [class_number |-> cls_num,
      class_title |-> IF lookup /\ given_title = "" THEN info.title ELSE given_title,
      class_category |-> IF lookup /\ given_category = "" THEN info.category
                         ELSE given_category,
      identification |-> DictGet(class_entry_dict, "identification", ""),
      filing_basis |-> DictGet(class_entry_dict, "filing_basis", "1(a)"),
      specimen_type |-> DictGet(class_entry_dict, "specimen_type", ""),
      specimen_description |-> DictGet(class_entry_dict, "specimen_description", ""),
      date_of_first_use |-> DictGet(class_entry_dict, "date_of_first_use", None),
      date_of_first_use_commerce |->
        DictGet(class_entry_dict, "date_of_first_use_commerce", None),
      fee_paid |-> DictGet(class_entry_dict, "fee_paid", TRUE),
      p1_error_count |-> Len(p1_errors),
      p1_warning_count |-> Len(p1_warnings),
      p1_error_messages |-> [k \in 1..Len(kept) |-> FindingText(kept[k], MessageSlice)],
      p2_is_definite |-> IF has_p2 THEN p2_result_dict.summary.is_definite ELSE TRUE,
      p2_error_count |-> p2_errors,
      p2_warning_count |-> p2_warnings,
      p2_error_messages |-> [k \in 1..Len(p2_error_findings) |->
                               SubsectionText(p2_error_findings[k], MessageSlice)],
      status |-> StatusOf(Len(p1_errors) + p2_errors, Len(p1_warnings) + p2_warnings)]

\* A Pillar3Finding; item is the fixed part of the item text.  In
\* triggered_by the section sign is left out and the double arrow is "=".
Pillar3Finding(section, severity, class_number, item, triggered_by) ==
  [tmep_section |-> section, severity |-> severity, class_number |-> class_number,
   item |-> item, triggered_by |-> triggered_by]

MinIdentification1403 == 5

class_assignment_keywords == <<"misclassif", "class", "wrong", "incorrect", "reclassif">>

\* The five per-class points of section 1403.01 for one class.
Requirements01Class(cls) ==
  LET section == "1403.01"
      n == cls.class_number
      specimen_flagged == \E k \in 1..Len(cls.p1_error_messages) :
                            Contains(Lower(cls.p1_error_messages[k]), "specimen")
      p1_class_errors == SelectSeq(cls.p1_error_messages,
                           LAMBDA m : ContainsAny(Lower(m), class_assignment_keywords))
      identification ==
        IF cls.identification = "" \/ Len(Strip(cls.identification)) < MinIdentification1403
        THEN Pillar3Finding(section, "ERROR", n, "Missing identification",
                            "P1:ClassEntry.identification")
        ELSE IF ~cls.p2_is_definite
        THEN Pillar3Finding(section, "ERROR", n, "Identification not definite (Pillar 2)",
                            "P2:1402.03")
        ELSE Pillar3Finding(section, "OK", n, "Identification", "")
      fee ==
        IF ~cls.fee_paid
        THEN Pillar3Finding(section, "ERROR", n, "Fee not paid", "P1:1401.04")
        ELSE Pillar3Finding(section, "OK", n, "Fee", "")
      specimen ==
        IF is_use_based(cls)
        THEN IF cls.specimen_type = "" /\ cls.specimen_description = ""
             THEN Pillar3Finding(section, "ERROR", n, "Specimen missing", "P1:1401.06")
             ELSE IF cls.p1_error_count > 0 /\ specimen_flagged
             THEN Pillar3Finding(section, "ERROR", n, "Specimen invalid (Pillar 1)",
                                 "P1:1401.06")
             ELSE Pillar3Finding(section, "OK", n, "Specimen", "")
        ELSE Pillar3Finding(section, "INFO", n, "Specimen (1(b))", "")
      assignment ==
        IF p1_class_errors # <<>>
        THEN Pillar3Finding(section, "ERROR", n, "Classification issue (Pillar 1)",
                            "P1:1401.03")
        ELSE Pillar3Finding(section, IF cls.p1_warning_count > 0 THEN "WARNING" ELSE "OK",
                            n, "Class assignment", "P1:1401.03")
      dates ==
        IF ~is_use_based(cls) THEN <<>>
        ELSE IF Falsy(cls.date_of_first_use) \/ Falsy(cls.date_of_first_use_commerce)
        THEN <<Pillar3Finding(section, "WARNING", n, "Missing dates of use",
                              "P1:ClassEntry.date_of_first_use")>>
        ELSE <<Pillar3Finding(section, "OK", n, "Dates of use", "")>>
  IN <<identification, fee, specimen, assignment>> \o dates

\* The application-level fee count cross-check closing section 1403.01.
FeeCount01(classes, app_context) ==
  LET unique_cls_count == Cardinality({classes[i].class_number : i \in 1..Len(classes)})
      fees_paid == app_context.fees_paid_count
  IN IF fees_paid > 0 /\ fees_paid # unique_cls_count
     THEN <<Pillar3Finding("1403.01",
                           IF unique_cls_count - fees_paid > 0 THEN "ERROR" ELSE "WARNING",
                           0, "Application-level fee count mismatch", "P1:1401.04")>>
     ELSE IF fees_paid > 0
     THEN <<Pillar3Finding("1403.01", "OK", 0, "Application-level fee count", "")>>
     ELSE <<>>

\* _check_1403_01_multi_class_requirements
check_1403_01(classes, app_context, fs) ==
  fs \o Flatten([i \in 1..Len(classes) |-> Requirements01Class(classes[i])])
     \o FeeCount01(classes, app_context)

\* set(text.lower().split())
WordSet(text) == Range(SplitWords(Lower(text)))

amendment_stopwords ==
  {"and", "or", "for", "the", "of", "in", "a", "an", "to", "with", "by", "from", "on", "at"}

broadening_keywords ==
  <<"add", "adding", "expand", "include", "broader", "additional", "new goods",
    "new services", "new class">>

SharedWordsLimit == 3

\* The (amended class, other class) pairs of section 1403.02 that share
\* SharedWordsLimit words or more, in loop order.
ConflictPairs02(classes, app_context) ==
  LET affected == Range(app_context.amendment_affects_classes)
      Shared(i, j) == (WordSet(classes[i].identification)
                       \cap (WordSet(classes[j].identification) \ amendment_stopwords))
  IN Flatten([i \in 1..Len(classes) |->
       IF classes[i].class_number \notin affected THEN <<>>
       ELSE Flatten([j \in 1..Len(classes) |->
              IF classes[j].class_number \in affected THEN <<>>
              ELSE IF Cardinality(Shared(i, j)) >= SharedWordsLimit
              THEN << <<classes[i].class_number, classes[j].class_number>> >>
              ELSE <<>>])])

\* The amendment touches every class: no class list, or the list names them all.
AmendsAllClasses(classes, app_context) ==
  \/ app_context.amendment_affects_classes = <<>>
  \/ Range(app_context.amendment_affects_classes)
       = {classes[i].class_number : i \in 1..Len(classes)}

\* What _check_1403_02_amendment_review returns: conflict_classes.
conflict_classes_02(classes, app_context) ==
  IF ~app_context.amendment_requested \/ AmendsAllClasses(classes, app_context) THEN <<>>
  ELSE LET pairs == ConflictPairs02(classes, app_context)
       IN [k \in 1..Len(pairs) |-> pairs[k][1]]

\* _check_1403_02_amendment_review: the findings it appends.
check_1403_02(classes, app_context, fs) ==
  LET section == "1403.02"
      pairs == ConflictPairs02(classes, app_context)
      scope ==
        IF AmendsAllClasses(classes, app_context)
        THEN <<Pillar3Finding(section, "WARNING", 0, "Amendment scope: ALL classes", "")>>
        ELSE [k \in 1..Len(pairs) |->
                Pillar3Finding(section, "WARNING", pairs[k][1],
                               "Cross-class amendment conflict",
                               "P1+P2:Class" \o ToString(pairs[k][1])
                               \o "=Class" \o ToString(pairs[k][2]))]
             \o (IF pairs = <<>>
                 THEN <<Pillar3Finding(section, "OK", 0, "Amendment scope", "")>>
                 ELSE <<>>)
      broadening ==
        IF /\ app_context.amendment_description # ""
           /\ ContainsAny(Lower(app_context.amendment_description), broadening_keywords)
        THEN <<Pillar3Finding(section, "ERROR", 0,
                              "Amendment may attempt to broaden scope", "")>>
        ELSE <<>>
  IN IF ~app_context.amendment_requested
     THEN fs \o <<Pillar3Finding(section, "INFO", 0, "No amendment in this assessment", "")>>
     ELSE fs \o scope \o broadening

\* The class numbers of the classes of a list that satisfy a test, in order.
NumbersWhere(classes, Test(_)) ==
  LET kept == SelectSeq(classes, Test)
  IN [k \in 1..Len(kept) |-> kept[k].class_number]

\* A variant of the standalone test that asks every class for a specimen,
\* whatever its filing basis.
DivideOut03_SpecimenAlways(classes, cls_num) ==
  LET hits == {i \in 1..Len(classes) : classes[i].class_number = cls_num}
      cls == classes[MinOf(hits)]
      issues == (IF Strip(cls.identification) = "" THEN <<"missing identification">>
                 ELSE <<>>)
                \o (IF cls.specimen_type = ""
                    THEN <<"missing specimen">> ELSE <<>>)
                \o (IF ~cls.fee_paid THEN <<"fee not paid">> ELSE <<>>)
  IN IF hits = {} THEN [findings |-> <<>>, eligible |-> <<>>]
     ELSE IF issues # <<>>
     THEN [findings |-> <<Pillar3Finding("1403.03", "ERROR", cls_num,
                                         "Cannot divide: incomplete requirements", "")
                            @@ [issues |-> issues]>>,
           eligible |-> <<>>]
     ELSE [findings |-> <<Pillar3Finding("1403.03", "OK", cls_num, "Division eligible", "")>>,
           eligible |-> <<cls_num>>]

\* The outcome of asking to divide out class number cls_num: nothing when no
\* class has the number, otherwise the standalone test on the first such class.
DivideOut03(classes, cls_num) ==
  LET hits == {i \in 1..Len(classes) : classes[i].class_number = cls_num}
      cls == classes[MinOf(hits)]
      issues == (IF Strip(cls.identification) = "" THEN <<"missing identification">>
                 ELSE <<>>)
                \o (IF is_use_based(cls) /\ cls.specimen_type = ""
                    THEN <<"missing specimen">> ELSE <<>>)
                \o (IF ~cls.fee_paid THEN <<"fee not paid">> ELSE <<>>)
  IN IF hits = {} THEN [findings |-> <<>>, eligible |-> <<>>]
     ELSE IF issues # <<>>
     THEN [findings |-> <<Pillar3Finding("1403.03", "ERROR", cls_num,
                                         "Cannot divide: incomplete requirements", "")
                            @@ [issues |-> issues]>>,
           eligible |-> <<>>]
     ELSE [findings |-> <<Pillar3Finding("1403.03", "OK", cls_num, "Division eligible", "")>>,
           eligible |-> <<cls_num>>]

\* _check_1403_03_division_eligibility: the findings it appends and the
\* division_eligible list it returns.
Division03(classes, app_context) ==
  LET section == "1403.03"
      error_classes == SelectSeq(classes, has_any_error)
      clean_classes == SelectSeq(classes, LAMBDA c : ~has_any_error(c))
      use_based == SelectSeq(classes, is_use_based)
      intent_to_use == SelectSeq(classes, is_intent_to_use)
      to_divide == app_context.classes_to_divide_out
      remaining == NumbersWhere(classes, LAMBDA c : c.class_number \notin Range(to_divide))
      outcomes == [k \in 1..Len(to_divide) |-> DivideOut03(classes, to_divide[k])]
  IN IF app_context.division_requested
     THEN [findings |->
             Flatten([k \in 1..Len(to_divide) |-> outcomes[k].findings])
             \o (IF remaining # <<>>
                 THEN <<Pillar3Finding(section, "INFO", 0, "Remaining after division", "")>>
                 ELSE <<>>),
           division_eligible |-> Flatten([k \in 1..Len(to_divide) |-> outcomes[k].eligible])]
     ELSE IF error_classes # <<>> /\ clean_classes # <<>>
     THEN [findings |-> <<Pillar3Finding(section, "WARNING", 0,
                                         "Division RECOMMENDED", "")>>,
           division_eligible |-> NumbersWhere(classes, LAMBDA c : ~has_any_error(c))]
     ELSE IF use_based # <<>> /\ intent_to_use # <<>>
     THEN [findings |-> <<Pillar3Finding(section, "INFO", 0, "Mixed filing basis", "")>>,
           division_eligible |-> NumbersWhere(classes, is_use_based)]
     ELSE [findings |-> <<Pillar3Finding(section, "INFO", 0,
                                         "Division not currently indicated", "")>>,
           division_eligible |-> <<>>]

check_1403_03(classes, app_context, fs) == fs \o Division03(classes, app_context).findings

ReasonsPerPillar == 2

\* The refusal reasons of one class, in the order they are appended; the
\* joined reasons string is kept as the list of its parts.
Reasons04(cls) ==
  LET p1 == IF cls.p1_error_count > 0
            THEN [k \in 1..Len(Take(cls.p1_error_messages, ReasonsPerPillar)) |->
                    [pillar |-> "1401", message |-> cls.p1_error_messages[k]]]
            ELSE <<>>
      p2 == IF ~cls.p2_is_definite \/ cls.p2_error_count > 0
            THEN [k \in 1..Len(Take(cls.p2_error_messages, ReasonsPerPillar)) |->
                    [pillar |-> "1402", message |-> cls.p2_error_messages[k]]]
                 \o (IF ~cls.p2_is_definite /\ cls.p2_error_messages = <<>>
                     THEN <<[pillar |-> "1402",
                             message |-> "Identification is not sufficiently definite."]>>
                     ELSE <<>>)
            ELSE <<>>
  IN p1 \o p2

\* A variant of the partial-refusal check that makes every refused class an
\* ERROR.
Refusals04_AlwaysError(classes) ==
  LET section == "1403.04"
      n == Len(classes)
      refused == {i \in 1..n : Reasons04(classes[i]) # <<>>}
      refusal_classes == NumbersWhere(classes, LAMBDA c : Reasons04(c) # <<>>)
      perClass == [i \in 1..n |->
        IF i \in refused
        THEN Pillar3Finding(section,
                            "ERROR",
                            classes[i].class_number, "PARTIAL REFUSAL CANDIDATE",
                            "P1:" \o ToString(classes[i].p1_error_count) \o "errors + P2:"
                            \o ToString(classes[i].p2_error_count) \o "errors")
        ELSE Pillar3Finding(section, "OK", classes[i].class_number,
                            "No refusal grounds", "")]
  IN [findings |->
        perClass \o (IF refused # {}
                     THEN <<Pillar3Finding(section, "INFO", 0, "Partial refusal summary", "")>>
                     ELSE <<>>),
      refusal_classes |-> refusal_classes,
      refusal_reasons |->
        [c \in Range(refusal_classes) |->
           Reasons04(classes[MaxOf({i \in refused : classes[i].class_number = c})])]]

\* _check_1403_04_partial_refusals: the findings it appends, and the
\* refusal_classes list and refusal_reasons dict it returns.  A later class
\* with the same number overwrites the dict entry of an earlier one.
Refusals04(classes) ==
  LET section == "1403.04"
      n == Len(classes)
      refused == {i \in 1..n : Reasons04(classes[i]) # <<>>}
      refusal_classes == NumbersWhere(classes, LAMBDA c : Reasons04(c) # <<>>)
      perClass == [i \in 1..n |->
        IF i \in refused
        THEN Pillar3Finding(section,
                            IF classes[i].status = "REFUSAL_CANDIDATE" THEN "ERROR"
                            ELSE "WARNING",
                            classes[i].class_number, "PARTIAL REFUSAL CANDIDATE",
                            "P1:" \o ToString(classes[i].p1_error_count) \o "errors + P2:"
                            \o ToString(classes[i].p2_error_count) \o "errors")
        ELSE Pillar3Finding(section, "OK", classes[i].class_number,
                            "No refusal grounds", "")]
  IN [findings |->
        perClass \o (IF refused # {}
                     THEN <<Pillar3Finding(section, "INFO", 0, "Partial refusal summary", "")>>
                     ELSE <<>>),
      refusal_classes |-> refusal_classes,
      refusal_reasons |->
        [c \in Range(refusal_classes) |->
           Reasons04(classes[MaxOf({i \in refused : classes[i].class_number = c})])]]

check_1403_04(classes, fs) == fs \o Refusals04(classes).findings

\* _check_1403_05_post_filing_fees
check_1403_05(classes, app_context, fs) ==
  LET section == "1403.05"
      stage == app_context.application_stage
      action == app_context.post_filing_action_type
      itu_classes == SelectSeq(classes, is_intent_to_use)
      sou == IF (stage = "STATEMENT_OF_USE" \/ action = "sou") /\ itu_classes # <<>>
             THEN <<Pillar3Finding(section, "INFO", 0, "Statement of Use", "")>>
             ELSE <<>>
      post == IF /\ action \in {"amendment", "response"}
                 /\ app_context.amendment_affects_classes # <<>>
              THEN <<Pillar3Finding(section, "INFO", 0, "Post-filing fee", "")>>
              ELSE <<>>
      surrender == IF /\ app_context.surrender_requested
                      /\ app_context.classes_to_surrender # <<>>
                   THEN <<Pillar3Finding(section, "INFO", 0, "Surrender fee check", "")>>
                   ELSE <<>>
  IN IF action = "" /\ stage \in {"PRE_FILING", "FILED_PENDING"}
     THEN fs \o <<Pillar3Finding(section, "INFO", 0,
                                 "No post-filing action in this assessment", "")>>
     ELSE fs \o sou \o post \o surrender
             \o <<Pillar3Finding(section, "INFO", 0,
                                 "Multi-class post-filing fee rule", "")>>

surrender_stopwords ==
  {"and", "or", "for", "the", "of", "in", "a", "an", "to", "with", "by", "from", "on",
   "at", "namely", "including"}

SignificantWordLength == 4

\* _check_1403_06_surrender_or_amendment
check_1403_06(classes, app_context, fs) ==
  LET section == "1403.06"
      stage == app_context.application_stage
      to_surrender == app_context.classes_to_surrender
      to_retain == SelectSeq(classes, LAMBDA c : c.class_number \notin Range(to_surrender))
      surrendered == SelectSeq(classes, LAMBDA c : c.class_number \in Range(to_surrender))
      retained_id_words == UNION {WordSet(to_retain[k].identification) :
                                    k \in 1..Len(to_retain)}
      Significant(sc) == {w \in (WordSet(sc.identification) \ surrender_stopwords)
                                  \cap retained_id_words : Len(w) > SignificantWordLength}
  IN IF stage \notin {"REGISTERED", "POST_REGISTRATION"}
     THEN fs \o <<Pillar3Finding(section, "INFO", 0, "Not yet registered", "")
                   @@ [stage |-> stage]>>
     ELSE IF ~app_context.surrender_requested
     THEN fs \o <<Pillar3Finding(section, "INFO", 0, "No surrender requested", "")>>
     ELSE IF Len(to_surrender) >= Len(classes)
     THEN fs \o <<Pillar3Finding(section, "ERROR", 0, "Full surrender", "")>>
     ELSE fs
          \o [k \in 1..Len(surrendered) |->
                IF Significant(surrendered[k]) # {}
                THEN Pillar3Finding(section, "WARNING", surrendered[k].class_number,
                                    "Scope overlap", "")
                ELSE Pillar3Finding(section, "OK", surrendered[k].class_number,
                                    "Surrender scope check", "")]
          \o (IF to_retain # <<>>
              THEN <<Pillar3Finding(section, "INFO", 0, "Post-surrender retained", "")>>
              ELSE <<>>)

\* _build_result; the findings field of the result is the assessor's own list
\* (p3_findings), not a copy, so it is not repeated in the record.
build_result(fs, division_eligible, refusal_classes, refusal_reasons) ==
  LET errors == Len(SelectSeq(fs, LAMBDA f : f.severity = "ERROR"))
      warnings == Len(SelectSeq(fs, LAMBDA f : f.severity = "WARNING"))
  IN [division_eligible_classes |-> division_eligible,
      division_recommended |-> Len(division_eligible) > 0,
      partial_refusal_classes |-> refusal_classes,
      partial_refusal_reasons |-> refusal_reasons,
      is_multi_class_compliant |-> errors = 0,
      total_errors |-> errors,
      total_warnings |-> warnings]

\* ---- Pillar 3 as a callable service: assess_multi_class_application ----

\* Longest ClassSummary list handed to the assessor.
MaxSummaries == 2

\* Class dicts the summaries are built from: a complete use-based class, a
\* second entry under the same class number that is incomplete and vague,
\* software filed under clothing on an intent-to-use basis, and a complete
\* class whose identification alone is open-ended.
SummaryDictPool ==
  { [class_number |-> 9,
     identification |-> "Downloadable software for financial management",
     specimen_type |-> "website screenshot",
     specimen_description |-> "screenshot of software download page",
     fee_paid |-> TRUE, filing_basis |-> "1(a)",
     date_of_first_use |-> "2023-05-01", date_of_first_use_commerce |-> "2023-06-01"],
    [class_number |-> 9,
     identification |-> "Software and related products for financial management, etc.",
     specimen_type |-> "", specimen_description |-> "",
     fee_paid |-> FALSE, filing_basis |-> "44(e)"],
    [class_number |-> 25,
     identification |-> "Software for inventory management",
     filing_basis |-> "1(b)"],
    [class_number |-> 42,
     identification |-> "Software design services, etc.",
     specimen_type |-> "website screenshot",
     specimen_description |-> "screenshot of design services page",
     fee_paid |-> TRUE, filing_basis |-> "1(a)"] }

\* Pillar 1 findings for a class list: the checks that read nothing but the
\* class entries and the fee count.
EntryFindings(cl, fees_paid_count) ==
  LET a == parse_application([classes |-> cl, fees_paid_count |-> fees_paid_count])
  IN check_1401_06(a, check_1401_04(a, check_1401_02(a, check_1401_01(a, <<>>))))

\* The summaries of a class list, with or without the results of the other
\* two pillars.
SummariesOf(cl, with_pillars, fees_paid_count) ==
  [i \in 1..Len(cl) |->
     build_class_summary(
       cl[i],
       IF with_pillars THEN EntryFindings(cl, fees_paid_count) ELSE <<>>,
       IF with_pillars
       THEN analyze_identification_under_tmep_1402(DictGet(cl[i], "identification", ""),
                                                   NoContext)
       ELSE NoResult)]

\* MultiClassApplicationContext with its defaults.
DefaultCtx ==
  [filing_type |-> "TEAS_PLUS", fees_paid_count |-> 0,
   application_stage |-> "FILED_PENDING",
   amendment_requested |-> FALSE, amendment_affects_classes |-> <<>>,
   amendment_description |-> "",
   division_requested |-> FALSE, classes_to_divide_out |-> <<>>,
   surrender_requested |-> FALSE, classes_to_surrender |-> <<>>,
   post_filing_action_type |-> ""]

\* What the applicant asks for: nothing, an amendment of every class or of
\* one, a division, a surrender of one class or of all.
Requests ==
  { [amendment_requested |-> FALSE],
    [amendment_requested |-> TRUE, post_filing_action_type |-> "amendment"],
    [amendment_requested |-> TRUE, amendment_affects_classes |-> <<9>>,
     amendment_description |-> "adding new goods",
     post_filing_action_type |-> "amendment"],
    [division_requested |-> TRUE, classes_to_divide_out |-> <<9, 7>>],
    [division_requested |-> TRUE, classes_to_divide_out |-> <<25>>],
    [surrender_requested |-> TRUE, classes_to_surrender |-> <<25>>],
    [surrender_requested |-> TRUE, classes_to_surrender |-> <<9, 25, 9>>,
     post_filing_action_type |-> "sou"] }

MaxFeesPaid == 2

\* Overriding the defaults by the fields of r.
CtxWith(r) == [k \in DOMAIN DefaultCtx |-> IF k \in DOMAIN r THEN r[k] ELSE DefaultCtx[k]]

AppContexts ==
  { CtxWith(r @@ [application_stage |-> stage]) : r \in Requests, stage \in ApplicationStages }
  \cup
  { CtxWith([fees_paid_count |-> n, application_stage |-> stage]) :
      n \in 1..MaxFeesPaid, stage \in {"FILED_PENDING", "REGISTERED"} }

InitP3 ==
  /\ NICE_CLASSES = NiceClassesData
  /\ handed_out = NothingHandedOut
  /\ pc = "assess_multi_class_application"
  /\ calls = <<>>
  /\ application_dict = NoApplication
  /\ findings = <<>>
  /\ p1_result = NoResult
  /\ lens = NoLens
  /\ p2_result = NoResult
  /\ evaluations = <<>>
  /\ \E cl \in SeqsUpTo(SummaryDictPool, MaxSummaries), with_pillars \in BOOLEAN,
        fees_paid_count \in 1..MaxSummaries :
       class_summaries = SummariesOf(cl, with_pillars, fees_paid_count)
  /\ ctx \in AppContexts
  /\ p3_findings = <<>>
  /\ p3_locals = NoLocals
  /\ p3_result = NoResult
  /\ NoPipeline

\* The locals of run_full_assessment before any check has returned.
NothingReturned ==
  [amendment_conflicts |-> <<>>, division_eligible |-> <<>>,
   refusal_classes |-> <<>>, refusal_reasons |-> <<>>]

SingleClassFinding ==
  Pillar3Finding("1403", "INFO", 0, "Single-class application", "")

MultiClassMinimum == 2

\* The guard taken on the number of entries, not of distinct class numbers.
P3GuardCountsEntries ==
  /\ pc = "assess_multi_class_application"
  /\ LET unique_classes == {class_summaries[i].class_number : i \in 1..Len(class_summaries)}
     IN IF Len(class_summaries) < MultiClassMinimum
        THEN /\ p3_findings' = <<SingleClassFinding>>
             /\ p3_result' = build_result(<<SingleClassFinding>>, <<>>, <<>>, <<>>)
             /\ handed_out' = HandOut1403(<<SingleClassFinding>>)
             /\ pc' = "p3_returned"
             /\ UNCHANGED p3_locals
        ELSE /\ p3_findings' = <<>>
             /\ p3_locals' = NothingReturned
             /\ pc' = "1403.01"
             /\ UNCHANGED <<p3_result, handed_out>>
  /\ UNCHANGED <<NICE_CLASSES, class_summaries, ctx, matcherVars, pillar1Vars, pillar2Vars,
                 pipelineVars>>

\* run_full_assessment up to its guard: the list is cleared, and with fewer
\* than two distinct class numbers the result is built at once.
P3Guard ==
  /\ pc = "assess_multi_class_application"
  /\ LET unique_classes == {class_summaries[i].class_number : i \in 1..Len(class_summaries)}
     IN IF Cardinality(unique_classes) < MultiClassMinimum
        THEN /\ p3_findings' = <<SingleClassFinding>>
             /\ p3_result' = build_result(<<SingleClassFinding>>, <<>>, <<>>, <<>>)
             /\ handed_out' = HandOut1403(<<SingleClassFinding>>)
             /\ pc' = "p3_returned"
             /\ UNCHANGED p3_locals
        ELSE /\ p3_findings' = <<>>
             /\ p3_locals' = NothingReturned
             /\ pc' = "1403.01"
             /\ UNCHANGED <<p3_result, handed_out>>
  /\ UNCHANGED <<NICE_CLASSES, class_summaries, ctx, matcherVars, pillar1Vars, pillar2Vars,
                 pipelineVars>>

P3Check01 ==
  /\ pc = "1403.01"
  /\ p3_findings' = check_1403_01(class_summaries, ctx, p3_findings)
  /\ pc' = "1403.02"
  /\ UNCHANGED <<NICE_CLASSES, callerVars, class_summaries, ctx, p3_locals, p3_result, matcherVars,
                 pillar1Vars, pillar2Vars, pipelineVars>>

P3Check02 ==
  /\ pc = "1403.02"
  /\ p3_findings' = check_1403_02(class_summaries, ctx, p3_findings)
  /\ p3_locals' = [p3_locals EXCEPT
                     !.amendment_conflicts = conflict_classes_02(class_summaries, ctx)]
  /\ pc' = "1403.03"
  /\ UNCHANGED <<NICE_CLASSES, callerVars, class_summaries, ctx, p3_result, matcherVars,
                 pillar1Vars, pillar2Vars, pipelineVars>>

P3Check03 ==
  /\ pc = "1403.03"
  /\ p3_findings' = check_1403_03(class_summaries, ctx, p3_findings)
  /\ p3_locals' = [p3_locals EXCEPT
                     !.division_eligible = Division03(class_summaries, ctx).division_eligible]
  /\ pc' = "1403.04"
  /\ UNCHANGED <<NICE_CLASSES, callerVars, class_summaries, ctx, p3_result, matcherVars,
                 pillar1Vars, pillar2Vars, pipelineVars>>

P3Check04 ==
  /\ pc = "1403.04"
  /\ p3_findings' = check_1403_04(class_summaries, p3_findings)
  /\ p3_locals' = [p3_locals EXCEPT
                     !.refusal_classes = Refusals04(class_summaries).refusal_classes,
                     !.refusal_reasons = Refusals04(class_summaries).refusal_reasons]
  /\ pc' = "1403.05"
  /\ UNCHANGED <<NICE_CLASSES, callerVars, class_summaries, ctx, p3_result, matcherVars,
                 pillar1Vars, pillar2Vars, pipelineVars>>

P3Check05 ==
  /\ pc = "1403.05"
  /\ p3_findings' = check_1403_05(class_summaries, ctx, p3_findings)
  /\ pc' = "1403.06"
  /\ UNCHANGED <<NICE_CLASSES, callerVars, class_summaries, ctx, p3_locals, p3_result, matcherVars,
                 pillar1Vars, pillar2Vars, pipelineVars>>

\* The last check, and the result built from what the checks returned.
P3Check06 ==
  /\ pc = "1403.06"
  /\ p3_findings' = check_1403_06(class_summaries, ctx, p3_findings)
  /\ p3_result' = build_result(p3_findings', p3_locals.division_eligible,
                               p3_locals.refusal_classes, p3_locals.refusal_reasons)
  /\ handed_out' = HandOut1403(p3_findings')
  /\ pc' = "p3_returned"
  /\ UNCHANGED <<NICE_CLASSES, class_summaries, ctx, p3_locals, matcherVars,
                 pillar1Vars, pillar2Vars, pipelineVars>>

NextP3 ==
  \/ P3Guard
  \/ P3Check01 \/ P3Check02 \/ P3Check03 \/ P3Check04 \/ P3Check05 \/ P3Check06

SpecP3 == InitP3 /\ [][NextP3]_vars

(***************************************************************************)
(* Properties of Pillar 3                                                  *)
(***************************************************************************)

\* The distinct class numbers of the summaries under assessment.
unique_classes == {class_summaries[i].class_number : i \in 1..Len(class_summaries)}

\* C3: when all class entries share one class number, run_full_assessment
\* returns exactly one finding, of severity INFO, and empty division-eligible
\* and partial-refusal lists, whatever the stage, fees, requests and the
\* results of the other two pillars.
C3_SingleClassShortCircuit ==
  (pc = "p3_returned" /\ Cardinality(unique_classes) = 1)
    => /\ Len(p3_findings) = 1
       /\ p3_findings[1].severity = "INFO"
       /\ p3_result.division_eligible_classes = <<>>
       /\ p3_result.partial_refusal_classes = <<>>

\* Two entries of one class, one of them with errors of both other pillars,
\* a division request on a registered mark: the assessment has returned.
C3_Witness ==
  /\ pc = "p3_returned"
  /\ Len(class_summaries) = 2
  /\ Cardinality(unique_classes) = 1
  /\ \E i \in 1..2 : class_summaries[i].p1_error_count > 0
                      /\ ~class_summaries[i].p2_is_definite
  /\ ctx.division_requested
  /\ ctx.application_stage = "REGISTERED"
  /\ Len(p3_findings) = 1

\* The combined Pillar 1 and Pillar 2 counts of a summary.
TotalErrors(cls) == cls.p1_error_count + cls.p2_error_count
TotalWarnings(cls) == cls.p1_warning_count + cls.p2_warning_count

\* C19: the status of every ClassSummary built by build_class_summary is
\* REFUSAL_CANDIDATE iff its combined error count is 3 or more, HAS_ERRORS
\* iff it is 1 or 2, HAS_WARNINGS iff there is no error and at least one
\* warning, CLEAN otherwise; so the status is HAS_ERRORS or
\* REFUSAL_CANDIDATE exactly when has_any_error() is true.
C19_StatusFromCounts ==
  \A i \in 1..Len(class_summaries) :
    LET cls == class_summaries[i]
    IN /\ (cls.status = "REFUSAL_CANDIDATE") <=> (TotalErrors(cls) >= 3)
       /\ (cls.status = "HAS_ERRORS") <=> (TotalErrors(cls) \in {1, 2})
       /\ (cls.status = "HAS_WARNINGS") <=> (TotalErrors(cls) = 0 /\ TotalWarnings(cls) >= 1)
       /\ (cls.status = "CLEAN") <=> (TotalErrors(cls) = 0 /\ TotalWarnings(cls) = 0)
       /\ (cls.status \in {"HAS_ERRORS", "REFUSAL_CANDIDATE"}) <=> has_any_error(cls)

\* C19 witness: two summaries built from the results of both pillars, both
\* with a warning beside their errors: one is a refusal candidate only by
\* adding its two Pillar 1 errors to its one Pillar 2 error, the other has
\* two errors.
C19_Witness ==
  /\ Len(class_summaries) = 2
  /\ \E i, j \in 1..2 :
       /\ class_summaries[i].status = "REFUSAL_CANDIDATE"
       /\ class_summaries[i].p1_error_count = 2
       /\ class_summaries[i].p2_error_count = 1
       /\ TotalWarnings(class_summaries[i]) > 0
       /\ class_summaries[j].status = "HAS_ERRORS"
       /\ TotalErrors(class_summaries[j]) = 2
       /\ TotalWarnings(class_summaries[j]) > 0

\* The summary carries a Pillar 1 error message, a Pillar 2 error message or
\* a Pillar 2 result that is not definite.
HasRefusalGrounds(cls) ==
  \/ cls.p1_error_messages # <<>>
  \/ cls.p2_error_messages # <<>>
  \/ ~cls.p2_is_definite

\* The 1403.04 check of a multi-class assessment has returned.
PartialRefusalsChecked ==
  pc \in {"1403.05", "1403.06", "p3_returned"} /\ Cardinality(unique_classes) >= 2

\* partial_refusal_classes: the list the check returned, and the field of
\* the result once the assessment has returned.
PartialRefusalClasses ==
  IF pc = "p3_returned" THEN p3_result.partial_refusal_classes
  ELSE p3_locals.refusal_classes

\* The per-class findings of 1403.04, in the order they were appended.
PartialRefusalFindings ==
  SelectSeq(p3_findings, LAMBDA f : f.tmep_section = "1403.04" /\ f.class_number # 0)

\* C20: in a multi-class assessment partial_refusal_classes lists exactly the
\* classes that carry a Pillar 1 error message, a Pillar 2 error message or a
\* non-definite Pillar 2 result; each of them gets one 1403.04 finding, ERROR
\* if its status is REFUSAL_CANDIDATE and WARNING otherwise, and every other
\* class gets exactly one 1403.04 OK.
C20_PartialRefusals ==
  PartialRefusalsChecked =>
    LET refused == SelectSeq(class_summaries, HasRefusalGrounds)
    IN /\ PartialRefusalClasses = [k \in 1..Len(refused) |-> refused[k].class_number]
       /\ Len(PartialRefusalFindings) = Len(class_summaries)
       /\ \A i \in 1..Len(class_summaries) :
            LET cls == class_summaries[i]
            IN /\ PartialRefusalFindings[i].class_number = cls.class_number
               /\ PartialRefusalFindings[i].severity =
                    IF ~HasRefusalGrounds(cls) THEN "OK"
                    ELSE IF cls.status = "REFUSAL_CANDIDATE" THEN "ERROR"
                    ELSE "WARNING"

\* C20 witness: an assessment of two classes has returned; one class has no
\* Pillar 1 error and is refused for its Pillar 2 result alone, with a
\* WARNING, and the other is not refused.
C20_Witness ==
  /\ pc = "p3_returned"
  /\ Len(class_summaries) = 2
  /\ \E i, j \in 1..2 :
       /\ class_summaries[i].p1_error_count = 0
       /\ ~class_summaries[i].p2_is_definite
       /\ class_summaries[i].status = "HAS_ERRORS"
       /\ ~HasRefusalGrounds(class_summaries[j])
       /\ p3_result.partial_refusal_classes = <<class_summaries[i].class_number>>
       /\ PartialRefusalFindings[i].severity = "WARNING"
       /\ PartialRefusalFindings[j].severity = "OK"

\* The standalone requirements a class does not meet: an identification, a
\* specimen when use-based, a paid fee.
UnmetRequirements(cls) ==
  (IF Strip(cls.identification) = "" THEN {"missing identification"} ELSE {})
  \cup (IF cls.filing_basis \in {"1(a)", "44(e)"} /\ cls.specimen_type = ""
        THEN {"missing specimen"} ELSE {})
  \cup (IF ~cls.fee_paid THEN {"fee not paid"} ELSE {})

\* The 1403.03 check of a multi-class assessment has returned.
DivisionChecked ==
  /\ pc \in {"1403.04", "1403.05", "1403.06", "p3_returned"}
  /\ Cardinality(unique_classes) >= 2

\* division_eligible_classes: the list the check returned, and the field of
\* the result once the assessment has returned.
DivisionEligible ==
  IF pc = "p3_returned" THEN p3_result.division_eligible_classes
  ELSE p3_locals.division_eligible

\* The first summary listed under class number n, the one the division
\* request is tested on.
FirstSummaryOf(n) ==
  class_summaries[MinOf({i \in 1..Len(class_summaries) : class_summaries[i].class_number = n})]

\* How often the division request names class number n.
TimesNamed(n) ==
  Cardinality({k \in 1..Len(ctx.classes_to_divide_out) : ctx.classes_to_divide_out[k] = n})

\* The 1403.03 findings of one severity for class number n.
DivisionFindings(severity, n) ==
  SelectSeq(p3_findings, LAMBDA f : /\ f.tmep_section = "1403.03"
                                    /\ f.severity = severity
                                    /\ f.class_number = n)

\* C21 (as stated): every class named in the division request is added to
\* division_eligible_classes with an OK iff it has an identification, a
\* specimen when use-based and a paid fee; otherwise it is not added and one
\* ERROR is emitted per unmet requirement.
C21_ErrorPerRequirement ==
  (DivisionChecked /\ ctx.division_requested) =>
    \A n \in Range(ctx.classes_to_divide_out) \cap unique_classes :
      LET unmet == UnmetRequirements(FirstSummaryOf(n))
      IN /\ (n \in Range(DivisionEligible)) <=> (unmet = {})
         /\ Len(DivisionFindings("OK", n)) = IF unmet = {} THEN TimesNamed(n) ELSE 0
         /\ Len(DivisionFindings("ERROR", n)) = TimesNamed(n) * Cardinality(unmet)

\* C21 (amended): the same, with one ERROR per named class that names all of
\* its unmet requirements; a named class number that no class of the
\* application has gets no finding and is not added.
C21_ErrorPerClass ==
  (DivisionChecked /\ ctx.division_requested) =>
    /\ \A n \in Range(ctx.classes_to_divide_out) \cap unique_classes :
         LET unmet == UnmetRequirements(FirstSummaryOf(n))
             errors == DivisionFindings("ERROR", n)
         IN /\ (n \in Range(DivisionEligible)) <=> (unmet = {})
            /\ Len(DivisionFindings("OK", n)) = IF unmet = {} THEN TimesNamed(n) ELSE 0
            /\ Len(errors) = IF unmet = {} THEN 0 ELSE TimesNamed(n)
            /\ \A k \in 1..Len(errors) : Range(errors[k].issues) = unmet
    /\ \A n \in Range(ctx.classes_to_divide_out) \ unique_classes :
         /\ n \notin Range(DivisionEligible)
         /\ DivisionFindings("OK", n) = <<>>
         /\ DivisionFindings("ERROR", n) = <<>>
    /\ Range(DivisionEligible) \subseteq Range(ctx.classes_to_divide_out)

\* C21 witness: the applicant asked to divide out class 9, whose summary is
\* use-based without a specimen and without a paid fee: the assessment has
\* returned with one ERROR for the class and an empty eligible list.
C21_Witness ==
  /\ pc = "p3_returned"
  /\ ctx.division_requested
  /\ Cardinality(unique_classes) >= 2
  /\ 9 \in Range(ctx.classes_to_divide_out) \cap unique_classes
  /\ Cardinality(UnmetRequirements(FirstSummaryOf(9))) = 2
  /\ Len(DivisionFindings("ERROR", 9)) = 1
  /\ p3_result.division_eligible_classes = <<>>

\* All 1403.03 findings, in the order they were appended.
AllDivisionFindings ==
  SelectSeq(p3_findings, LAMBDA f : f.tmep_section = "1403.03")

\* C22: without a division request 1403.03 emits exactly one finding: a
\* WARNING with the clean classes as the eligible list when error-bearing and
\* clean classes coexist; otherwise the mixed-basis INFO with the use-based
\* classes as the eligible list when both 1(a) and 1(b) are present;
\* otherwise the INFO that no division is indicated and an empty list.
C22_RecommendationPrecedence ==
  (DivisionChecked /\ ~ctx.division_requested) =>
    LET Has(Test(_)) == \E i \in 1..Len(class_summaries) : Test(class_summaries[i])
        Clean(c) == ~has_any_error(c)
        only == AllDivisionFindings[1]
    IN /\ Len(AllDivisionFindings) = 1
       /\ IF Has(has_any_error) /\ Has(Clean)
          THEN /\ only.severity = "WARNING"
               /\ DivisionEligible = NumbersWhere(class_summaries, Clean)
          ELSE IF /\ Has(LAMBDA c : c.filing_basis = "1(a)")
                  /\ Has(LAMBDA c : c.filing_basis = "1(b)")
          THEN /\ only.severity = "INFO"
               /\ only.item = "Mixed filing basis"
               /\ DivisionEligible = NumbersWhere(class_summaries, is_use_based)
          ELSE /\ only.severity = "INFO"
               /\ only.item = "Division not currently indicated"
               /\ DivisionEligible = <<>>

\* C27: without a division request, every class number in
\* division_eligible_classes belongs to classes with no Pillar 1 and no
\* Pillar 2 error.
C27_EligibleClassesClean ==
  (DivisionChecked /\ ~ctx.division_requested) =>
    \A n \in Range(DivisionEligible) :
      \A i \in 1..Len(class_summaries) :
        class_summaries[i].class_number = n
          => /\ class_summaries[i].p1_error_count = 0
             /\ class_summaries[i].p2_error_count = 0

\* The 1403.06 findings of one severity.
SurrenderFindings(severity) ==
  SelectSeq(p3_findings, LAMBDA f : f.tmep_section = "1403.06" /\ f.severity = severity)

\* C23: after a multi-class assessment the full-surrender ERROR of 1403.06 is
\* there iff the stage is REGISTERED or POST_REGISTRATION, a surrender is
\* requested and every class of the application is named in
\* classes_to_surrender; at every other stage 1403.06 emits no ERROR and no
\* WARNING.
C23_FullSurrenderError ==
  (pc = "p3_returned" /\ Cardinality(unique_classes) >= 2) =>
    /\ (\E k \in 1..Len(SurrenderFindings("ERROR")) :
           SurrenderFindings("ERROR")[k].item = "Full surrender")
         <=> /\ ctx.application_stage \in {"REGISTERED", "POST_REGISTRATION"}
             /\ ctx.surrender_requested
             /\ unique_classes \subseteq Range(ctx.classes_to_surrender)
    /\ ctx.application_stage \notin {"REGISTERED", "POST_REGISTRATION"}
         => SurrenderFindings("ERROR") = <<>> /\ SurrenderFindings("WARNING") = <<>>

(***************************************************************************)
(* A caller that keeps what run_full_assessment returned and invokes the   *)
(* same assessor again                                                     *)
(***************************************************************************)

\* How often the caller invokes the assessor again.
MaxAgain == 1

\* The applications and contexts of the assessors that are invoked again.
AgainDicts ==
  {sample} \cup { [classes |-> cl, filing_date |-> "2024-01-01"] : cl \in SharedClassLists }

AgainContexts ==
  { DefaultCtx,
    CtxWith([surrender_requested |-> TRUE, classes_to_surrender |-> <<25>>]) }

\* Either a TMEP1401Assessor or a Pillar3Assessor has been constructed.
InitAgain ==
  /\ NICE_CLASSES = NiceClassesData
  /\ handed_out = NothingHandedOut
  /\ calls = <<>>
  /\ p1_result = NoResult
  /\ lens = NoLens
  /\ p2_result = NoResult
  /\ evaluations = <<>>
  /\ p3_findings = <<>>
  /\ p3_locals = NoLocals
  /\ p3_result = NoResult
  /\ findings = <<>>
  /\ NoPipeline
  /\ \/ /\ pc = "run_full_assessment"
        /\ application_dict \in AgainDicts
        /\ class_summaries = <<>>
        /\ ctx = NoCtx
     \/ /\ pc = "assess_multi_class_application"
        /\ application_dict = NoApplication
        /\ \E cl \in SeqsUpTo(SummaryDictPool, MaxSummaries) :
             class_summaries = SummariesOf(cl, TRUE, Len(cl))
        /\ ctx \in AgainContexts

\* The caller invokes TMEP1401Assessor.run_full_assessment once more.
P1Again ==
  /\ pc = "p1_returned"
  /\ handed_out.again < MaxAgain
  /\ handed_out' = [handed_out EXCEPT !.again = @ + 1]
  /\ pc' = "run_full_assessment"
  /\ UNCHANGED <<NICE_CLASSES, matcherVars, pillar1Vars, pillar2Vars, pillar3Vars,
                 pipelineVars>>

\* The caller invokes Pillar3Assessor.run_full_assessment once more, on the
\* context object as it is or after the application has been registered.
P3Again ==
  /\ pc = "p3_returned"
  /\ handed_out.again < MaxAgain
  /\ handed_out' = [handed_out EXCEPT !.again = @ + 1]
  /\ ctx' \in {ctx, [ctx EXCEPT !.application_stage = "REGISTERED"]}
  /\ pc' = "assess_multi_class_application"
  /\ UNCHANGED <<NICE_CLASSES, class_summaries, p3_findings, p3_locals, p3_result,
                 matcherVars, pillar1Vars, pillar2Vars, pipelineVars>>

NextAgain == NextP1 \/ P1Again \/ NextP3 \/ P3Again

SpecAgain == InitAgain /\ [][NextAgain]_vars

\* C28: whenever run_full_assessment has returned, the first time or again on
\* the same assessor, the list handed to the caller at the first return holds
\* the contents it had then: for the list of TMEP1401Assessor and for the
\* findings of a Pillar3AssessmentResult.
C28_ReturnedFindingsKept ==
  /\ (pc = "p1_returned" /\ handed_out.p1_given) => findings = handed_out.p1
  /\ (pc = "p3_returned" /\ handed_out.p3_given) => p3_findings = handed_out.p3

(***************************************************************************)
(* The three pillars in sequence: tmep_1403_pillar3.run_full_pipeline      *)
(***************************************************************************)

\* "; ".join(q) for a sequence of strings.
JoinTexts(q) ==
  LET J[i \in 0..Len(q)] ==
        IF i = 0 THEN ""
        ELSE IF i = 1 THEN q[1]
        ELSE J[i - 1] \o "; " \o q[i]
  IN J[Len(q)]

SummaryErrors == 2
SummarySlice == 80

\* build_pillar1_context_from_dicts
build_pillar1_context_from_dicts(class_entry_dict, pillar1_findings) ==
  LET cls_num == DictGet(class_entry_dict, "class_number", 0)
      class_findings == SelectSeq(pillar1_findings,
                          LAMBDA f : f.class_number = cls_num \/ f.class_number = 0)
      errors == SelectSeq(class_findings, LAMBDA f : f.severity = "ERROR")
      warnings == SelectSeq(class_findings, LAMBDA f : f.severity = "WARNING")
      first == Take(errors, SummaryErrors)
      info == get_class_info(cls_num)
  IN [class_number |-> cls_num,
      class_title |-> IF info = NoClassInfo THEN "" ELSE info.title,
      class_category |-> IF info = NoClassInfo THEN "" ELSE info.category,
      filing_basis |-> DictGet(class_entry_dict, "filing_basis", "1(a)"),
      specimen_type |-> DictGet(class_entry_dict, "specimen_type", ""),
      specimen_description |-> DictGet(class_entry_dict, "specimen_description", ""),
      has_pillar1_class_error |-> Len(errors) > 0,
      has_pillar1_class_warning |-> Len(warnings) > 0,
      pillar1_error_summary |->
        JoinTexts([k \in 1..Len(first) |-> FindingText(first[k], SummarySlice)])]

\* The Pillar 2 loop of the pipeline: one analysis per class dict, stored
\* under the class number, so a later dict of the same number replaces the
\* result of an earlier one.
Pillar2ByClass(class_dicts, p1_findings) ==
  LET NumberOf(i) == DictGet(class_dicts[i], "class_number", 0)
      numbers == {NumberOf(i) : i \in 1..Len(class_dicts)}
      LastOf(c) == MaxOf({i \in 1..Len(class_dicts) : NumberOf(i) = c})
  IN [c \in numbers |->
        analyze_identification_under_tmep_1402(
          DictGet(class_dicts[LastOf(c)], "identification", ""),
          build_pillar1_context_from_dicts(class_dicts[LastOf(c)], p1_findings))]

\* The MultiClassApplicationContext the pipeline builds from the input dict.
PipelineContext(d) ==
  [filing_type |-> DictGet(d, "filing_type", "TEAS_PLUS"),
   fees_paid_count |-> DictGet(d, "fees_paid_count", 0),
   application_stage |-> "FILED_PENDING",
   amendment_requested |-> DictGet(d, "amendment_requested", FALSE),
   amendment_affects_classes |-> DictGet(d, "amendment_affects_classes", <<>>),
   amendment_description |-> DictGet(d, "amendment_description", ""),
   division_requested |-> DictGet(d, "division_requested", FALSE),
   classes_to_divide_out |-> DictGet(d, "classes_to_divide_out", <<>>),
   surrender_requested |-> DictGet(d, "surrender_requested", FALSE),
   classes_to_surrender |-> DictGet(d, "classes_to_surrender", <<>>),
   post_filing_action_type |-> DictGet(d, "post_filing_action_type", "")]

\* sum(r["summary"][key] for r in p2_results.values())
SumOver(results, Pick(_)) ==
  LET keys == Sorted(DOMAIN results)
      S[i \in 0..Len(keys)] == IF i = 0 THEN 0 ELSE S[i - 1] + Pick(results[keys[i]])
  IN S[Len(keys)]

\* The combined summary dict of the pipeline.
CombinedSummary(p1_findings, results, p3) ==
  LET p1_errors == IF p1_findings = <<>> THEN 0 ELSE CountSeverity(p1_findings, "ERROR")
      p1_warnings == IF p1_findings = <<>> THEN 0 ELSE CountSeverity(p1_findings, "WARNING")
      p2_total_errors == SumOver(results, LAMBDA r : r.summary.errors)
      p2_total_warnings == SumOver(results, LAMBDA r : r.summary.warnings)
  IN [pillar1_errors |-> p1_errors,
      pillar1_warnings |-> p1_warnings,
      pillar2_errors |-> p2_total_errors,
      pillar2_warnings |-> p2_total_warnings,
      pillar3_errors |-> p3.total_errors,
      pillar3_warnings |-> p3.total_warnings,
      total_errors |-> p1_errors + p2_total_errors + p3.total_errors,
      total_warnings |-> p1_warnings + p2_total_warnings + p3.total_warnings,
      partial_refusal_classes |-> p3.partial_refusal_classes,
      division_recommended |-> p3.division_recommended,
      division_eligible_classes |-> p3.division_eligible_classes,
      overall_compliant |-> p3.is_multi_class_compliant /\ p1_errors = 0]

\* Longest class list of the applications sent through the pipeline.
MaxPipelineClasses == 2

\* A complete class, the same class with an indefinite closing term, software
\* filed under clothing, and a technology class naming a moved service.
PipelineDictPool ==
  { [class_number |-> 9,
     identification |-> "Downloadable software for financial management",
     specimen_type |-> "website screenshot",
     specimen_description |-> "screenshot of software download page",
     fee_paid |-> TRUE, filing_basis |-> "1(a)",
     date_of_first_use |-> "2023-05-01", date_of_first_use_commerce |-> "2023-06-01"],
    [class_number |-> 9,
     identification |-> "Downloadable software, etc.",
     specimen_type |-> "website screenshot",
     specimen_description |-> "screenshot of software download page",
     fee_paid |-> TRUE, filing_basis |-> "1(a)",
     date_of_first_use |-> "2023-05-01", date_of_first_use_commerce |-> "2023-06-01"],
    [class_number |-> 25,
     identification |-> "Software for inventory management",
     filing_basis |-> "1(b)"],
    Class42Dict }

\* A class filed under the Madrid Protocol, for which no specimen was given.
MadridDict ==
  [class_number |-> 25, identification |-> "Shirts", fee_paid |-> TRUE,
   filing_basis |-> "66(a)"]

\* Input dicts of the pipeline: class lists with the application fields at
\* their defaults, one-class and two-class dicts with a fee count and a
\* request, two-class dicts that begin with the Madrid Protocol class, and
\* dicts with two entries under class 9 followed by the Madrid Protocol class.
PipelineDicts ==
  { [classes |-> cl, filing_date |-> "2024-01-01"] :
      cl \in SeqsUpTo(PipelineDictPool, MaxPipelineClasses) }
  \cup
  { [classes |-> <<c, Class42Dict>>, fees_paid_count |-> 1, filing_type |-> "PAPER",
     division_requested |-> TRUE, classes_to_divide_out |-> <<9>>,
     amendment_requested |-> TRUE, amendment_affects_classes |-> <<42>>,
     amendment_description |-> "narrow the services"] : c \in PipelineDictPool }
  \cup
  { [classes |-> <<MadridDict, c>>, fees_paid_count |-> 2, filing_date |-> "2024-01-01"] :
      c \in PipelineDictPool }
  \cup
  { [classes |-> <<a, b, MadridDict>>, filing_date |-> "2024-01-01"] :
      a, b \in {c \in PipelineDictPool : c.class_number = 9} }

\* The two entry points named run_full_pipeline.
Pillar3Entry == "tmep_1403_pillar3.run_full_pipeline"
MainEntry == "main.run_full_pipeline"

\* The modules of the repository the entry points import from.
AllModules == {"main", "tmep_1402_pillar2", "tmep_1403_pillar3"}

\* The names each module defines at its top level.
ModuleNames ==
  [main |-> {"parse_application", "assess_trademark_application", "run_full_pipeline"},
   tmep_1402_pillar2 |->
     {"IdentificationRecord", "Pillar1ClassContext", "build_pillar1_context_from_dicts",
      "SubsectionFinding", "TMEP1402AnalysisResult", "TMEP1402Lens",
      "analyze_identification_under_tmep_1402", "print_pillar2_report"},
   tmep_1403_pillar3 |->
     {"ClassStatus", "ApplicationStage", "ClassSummary", "build_class_summary",
      "MultiClassApplicationContext", "Pillar3Finding", "Pillar3AssessmentResult",
      "Pillar3Assessor", "print_pillar3_report", "assess_multi_class_application",
      "run_full_pipeline"}]

\* "from module import names" succeeds: the module can be found and defines
\* every name; otherwise the statement raises ImportError.
CanImport(module, names) ==
  module \in pipeline_call.available /\ names \subseteq ModuleNames[module]

\* A call of an entry point, with the modules that can be imported.
PipelineCall(entry, available) ==
  [entry |-> entry, available |-> available, outcome |-> "running"]

\* The dicts sent through the pipeline with a module missing, and through the
\* entry point of main.
DegradedDicts == {d \in PipelineDicts : "fees_paid_count" \in DOMAIN d}

\* Calls with a module missing: of the Pillar 3 entry point with any of the
\* other two modules missing, of the entry point of main with or without the
\* Pillar 2 module.
DegradedCalls ==
  { PipelineCall(Pillar3Entry, AllModules \ missing) :
      missing \in (SUBSET {"main", "tmep_1402_pillar2"}) \ {{}} }
  \cup
  { PipelineCall(MainEntry, AllModules \ missing) :
      missing \in SUBSET {"tmep_1402_pillar2"} }

InitPipeline ==
  /\ NICE_CLASSES = NiceClassesData
  /\ handed_out = NothingHandedOut
  /\ calls = <<>>
  /\ \/ /\ application_dict \in PipelineDicts
        /\ pipeline_call = PipelineCall(Pillar3Entry, AllModules)
     \/ /\ application_dict \in DegradedDicts
        /\ pipeline_call \in DegradedCalls
  /\ findings = <<>>
  /\ p1_result = NoResult
  /\ pc = "run_full_pipeline"
  /\ lens = NoLens
  /\ p2_result = NoResult
  /\ evaluations = <<>>
  /\ NoPillar3
  /\ p2_results = <<>>
  /\ combined_summary = NoSummary

\* tmep_1403_pillar3.run_full_pipeline imports and calls Pillar 1; when the
\* import fails it goes on with no Pillar 1 findings.
PipelinePillar1 ==
  /\ pc = "run_full_pipeline"
  /\ pipeline_call.entry = Pillar3Entry
  /\ pc' = IF CanImport("main", {"assess_trademark_application"})
           THEN "run_full_assessment" ELSE "p1_skipped"
  /\ UNCHANGED <<NICE_CLASSES, callerVars, matcherVars, pillar1Vars, pillar2Vars, pillar3Vars,
                 pipelineVars>>

\* main.run_full_pipeline calls assess_trademark_application of its own module.
MainPillar1 ==
  /\ pc = "run_full_pipeline"
  /\ pipeline_call.entry = MainEntry
  /\ pc' = "run_full_assessment"
  /\ UNCHANGED <<NICE_CLASSES, callerVars, matcherVars, pillar1Vars, pillar2Vars, pillar3Vars,
                 pipelineVars>>

\* main.run_full_pipeline imports run_pillar2 from the Pillar 2 module
\* outside any try block: a failing import ends the call with ImportError.
\* (No module defines run_pillar2, so there is no code to go on with.)
MainImportPillar2 ==
  /\ pc = "p1_returned"
  /\ pipeline_call.entry = MainEntry
  /\ ~CanImport("tmep_1402_pillar2", {"run_pillar2"})
  /\ pipeline_call' = [pipeline_call EXCEPT !.outcome = "raised"]
  /\ pc' = "pipeline_raised"
  /\ UNCHANGED <<NICE_CLASSES, callerVars, p2_results, combined_summary, matcherVars, pillar1Vars,
                 pillar2Vars, pillar3Vars>>

\* Pillar 1 has returned its findings or was skipped; Pillar 2 analyses every
\* class dict, or is skipped when its import fails.
PipelinePillar2 ==
  /\ pc \in {"p1_returned", "p1_skipped"}
  /\ pipeline_call.entry = Pillar3Entry
  /\ p2_results' =
       IF CanImport("tmep_1402_pillar2",
                    {"analyze_identification_under_tmep_1402",
                     "build_pillar1_context_from_dicts", "Pillar1ClassContext"})
       THEN Pillar2ByClass(DictGet(application_dict, "classes", <<>>), findings)
       ELSE <<>>
  /\ pc' = "build_class_summary"
  /\ UNCHANGED <<NICE_CLASSES, callerVars, combined_summary, pipeline_call, matcherVars, pillar1Vars,
                 pillar2Vars, pillar3Vars>>

\* The class summaries and the application context are built and handed to
\* a new Pillar3Assessor.
PipelineSummaries ==
  /\ pc = "build_class_summary"
  /\ LET class_dicts == DictGet(application_dict, "classes", <<>>)
         cls_num(i) == DictGet(class_dicts[i], "class_number", 0)
     IN class_summaries' =
          [i \in 1..Len(class_dicts) |->
             build_class_summary(class_dicts[i], findings,
                                 IF cls_num(i) \in DOMAIN p2_results
                                 THEN p2_results[cls_num(i)] ELSE NoResult)]
  /\ ctx' = PipelineContext(application_dict)
  /\ p3_findings' = <<>>
  /\ pc' = "assess_multi_class_application"
  /\ UNCHANGED <<NICE_CLASSES, callerVars, p3_locals, p3_result, matcherVars, pillar1Vars, pillar2Vars,
                 pipelineVars>>

\* Pillar 3 has returned; the combined summary closes the pipeline.
PipelineCombine ==
  /\ pc = "p3_returned"
  /\ combined_summary' = CombinedSummary(findings, p2_results, p3_result)
  /\ pipeline_call' = [pipeline_call EXCEPT !.outcome = "returned"]
  /\ pc' = "pipeline_returned"
  /\ UNCHANGED <<NICE_CLASSES, callerVars, p2_results, matcherVars, pillar1Vars, pillar2Vars, pillar3Vars>>

NextPipeline ==
  \/ PipelinePillar1
  \/ MainPillar1
  \/ NextP1
  \/ MainImportPillar2
  \/ PipelinePillar2
  \/ PipelineSummaries
  \/ NextP3
  \/ PipelineCombine

SpecPipeline == InitPipeline /\ [][NextPipeline]_vars

(***************************************************************************)
(* Properties of the pipeline                                              *)
(***************************************************************************)

\* An upstream collaborator of the entry point called, a module or the entry
\* function it is asked for, cannot be imported.
CollaboratorUnavailable ==
  IF pipeline_call.entry = Pillar3Entry
  THEN \/ ~CanImport("main", {"assess_trademark_application"})
       \/ ~CanImport("tmep_1402_pillar2", {"analyze_identification_under_tmep_1402",
                                            "build_pillar1_context_from_dicts"})
  ELSE \/ ~CanImport("tmep_1402_pillar2", {"run_pillar2"})
       \/ ~CanImport("tmep_1403_pillar3", {"run_pillar3"})

\* C15: in both entry points named run_full_pipeline, a call made while an
\* upstream collaborator is unavailable never ends by raising: the failure
\* is caught and the sub-analysis skipped.
C15_MissingCollaboratorCaught ==
  CollaboratorUnavailable => pipeline_call.outcome # "raised"

\* Some finding of the Pillar 2 analysis of some class is an ERROR.
Pillar2HasError ==
  \E c \in DOMAIN p2_results :
    \E k \in 1..Len(p2_results[c].tmep_1402_analysis.subsection_findings) :
      p2_results[c].tmep_1402_analysis.subsection_findings[k].severity = "ERROR"

\* Some finding of some pillar is an ERROR.
AnyPillarHasError ==
  \/ \E k \in 1..Len(findings) : findings[k].severity = "ERROR"
  \/ Pillar2HasError
  \/ \E k \in 1..Len(p3_findings) : p3_findings[k].severity = "ERROR"

\* C6: in the result of the full pipeline, overall_compliant is true exactly
\* when no pillar produced a finding of severity ERROR.
C6_ErrorBlocksCompliance ==
  pc = "pipeline_returned" => (combined_summary.overall_compliant <=> ~AnyPillarHasError)


\* The fee-count finding of Pillar 1 (1401.04) and the application-level
\* fee-count findings of Pillar 3 (1403.01).
FeeCountFindings1401 ==
  SelectSeq(findings, LAMBDA f : f.tmep_section = "1401.04" /\ f.item \in FeeCountItems)
FeeCountFindings1403 ==
  SelectSeq(p3_findings,
            LAMBDA f : /\ f.tmep_section = "1403.01"
                       /\ f.class_number = 0
                       /\ f.item \in {"Application-level fee count mismatch",
                                       "Application-level fee count"})

\* C25: when the pipeline has run Pillar 1 and Pillar 3 on a multi-class
\* application, a fees_paid_count below the distinct-class count gives an
\* application-level ERROR in 1403.01 and one above it a WARNING, and the
\* severity of the 1403.01 fee-count finding is that of the 1401.04 fee-count
\* finding, also when fees_paid_count is 0 or left out of the input dict.
C25_FeeCountAgrees ==
  (/\ pc = "pipeline_returned"
   /\ pipeline_call.entry = Pillar3Entry
   /\ "main" \in pipeline_call.available
   /\ Cardinality(unique_classes) >= 2) =>
    LET n == Cardinality(unique_classes)
        given == "fees_paid_count" \in DOMAIN application_dict
        severities == {FeeCountFindings1403[k].severity : k \in 1..Len(FeeCountFindings1403)}
    IN /\ (given /\ application_dict.fees_paid_count < n) => severities = {"ERROR"}
       /\ (given /\ application_dict.fees_paid_count > n) => severities = {"WARNING"}
       /\ severities
            = {FeeCountFindings1401[k].severity : k \in 1..Len(FeeCountFindings1401)}


\* Pillar 1 tagged an ERROR with class number n, or Pillar 2 reported an error
\* or a non-definite identification for class n.
OwnRefusalGrounds(n) ==
  \/ \E k \in 1..Len(findings) :
       findings[k].severity = "ERROR" /\ findings[k].class_number = n
  \/ /\ n \in DOMAIN p2_results
     /\ \/ p2_results[n].summary.errors > 0
        \/ ~p2_results[n].summary.is_definite

\* C26: in the result of the pipeline a class is in partial_refusal_classes
\* only if Pillar 1 tagged an ERROR with its own number or Pillar 2 reported
\* an error or non-definiteness for it; an application-level Pillar 1 ERROR
\* (class 0) alone puts no class on the list.
C26_RefusalClassSpecific ==
  (pc = "pipeline_returned" /\ pipeline_call.entry = Pillar3Entry) =>
    \A n \in Range(p3_result.partial_refusal_classes) : OwnRefusalGrounds(n)


\* The class numbers for which Pillar 1 (1401.06) and Pillar 3 (1403.01)
\* reported a missing specimen as an ERROR.
MissingSpecimen1401 ==
  { findings[k].class_number : k \in { j \in 1..Len(findings) :
      /\ findings[j].tmep_section = "1401.06"
      /\ findings[j].severity = "ERROR"
      /\ findings[j].item = "Specimen Missing" } }
MissingSpecimen1403 ==
  { p3_findings[k].class_number : k \in { j \in 1..Len(p3_findings) :
      /\ p3_findings[j].tmep_section = "1403.01"
      /\ p3_findings[j].severity = "ERROR"
      /\ p3_findings[j].item = "Specimen missing" } }

\* C29: when the pipeline has run Pillar 1 and Pillar 3 on a multi-class
\* application, the classes with a missing-specimen ERROR of 1401.06 are those
\* with a missing-specimen ERROR of 1403.01, and each of them has an entry
\* filed on a use basis (1(a) or 44(e)).
C29_SpecimenAgrees ==
  (/\ pc = "pipeline_returned"
   /\ pipeline_call.entry = Pillar3Entry
   /\ "main" \in pipeline_call.available
   /\ Cardinality(unique_classes) >= 2) =>
    /\ MissingSpecimen1401 = MissingSpecimen1403
    /\ \A n \in MissingSpecimen1401 \cup MissingSpecimen1403 :
         \E i \in 1..Len(class_summaries) :
           class_summaries[i].class_number = n /\ is_use_based(class_summaries[i])


\* What Pillar 2 computes from the identification of the i-th class entry of
\* the input dict, given the Pillar 1 findings of the run.
OwnPillar2Result(i) ==
  LET class_dicts == DictGet(application_dict, "classes", <<>>)
  IN analyze_identification_under_tmep_1402(
       DictGet(class_dicts[i], "identification", ""),
       build_pillar1_context_from_dicts(class_dicts[i], findings))

\* C30: in a run of the pipeline with Pillar 2, the ClassSummary built for
\* each class entry carries the definiteness and the error count Pillar 2
\* computes from that entry's own identification, also when several entries
\* share a class number.
C30_SummaryCarriesOwnResult ==
  (/\ pc = "pipeline_returned"
   /\ pipeline_call.entry = Pillar3Entry
   /\ "tmep_1402_pillar2" \in pipeline_call.available) =>
    \A i \in 1..Len(class_summaries) :
      /\ class_summaries[i].p2_is_definite = OwnPillar2Result(i).summary.is_definite
      /\ class_summaries[i].p2_error_count = OwnPillar2Result(i).summary.errors

====
